---- MODULE Spec2Model ----
(***************************************************************************)
(* Readability: the retry controller of _grabArticle, the candidate        *)
(* ranking, link density and sibling assembly, modelled from the code      *)
(* excerpts of the analysis documents.                                     *)
(*                                                                         *)
(* Scores are kept in hundredths (contentScore 5 is 500) so that the       *)
(* link-density adjustment contentScore * (1 - linkDensity), with the      *)
(* density in percent, stays an integer.                                   *)
(***************************************************************************)
EXTENDS Integers, Sequences, FiniteSets, TLC

VARIABLES
    doc,            \* the input document: the element children of the page
    page,           \* the live DOM below `page`, mutated by each attempt
    pageCacheHtml,  \* var pageCacheHtml = page.innerHTML
    flags,          \* this._flags
    attempts,       \* this._attempts
    articleContent, \* the articleContent of the attempt just run
    textLength,     \* its _getInnerText(articleContent, true).length
    result,         \* what _grabArticle returned
    pc,             \* position in _grabArticle
    flagsRun,       \* history: the flags each attempt of this call ran with
    touched,        \* history: the last attempt removed or moved page nodes
    call,           \* which parse() call on this document is running (1 or 2)
    reuse,          \* what the second call shares with the first:
                    \* "instance" (and so its document), "document" or "copy"
    first,          \* history: attempt count and content of the first call
    candidates,     \* the candidates the ranking loop has not reached yet
    ranked,         \* history: the candidates the ranking loop has placed
    topCandidates,  \* var topCandidates = []
    topCandidate,   \* var topCandidate
    sib,            \* the sibling loop: siblings, s, sl and articleContent
    jsdom,          \* this._docJSDOMParser
    nbTopCandidates,\* this._nbTopCandidates
    element,        \* _getLinkDensity(element): the subtree of the element
    links,          \* element.getElementsByTagName("a"), not yet visited
    linkLength,     \* var linkLength, in tenths of a character
    linkDensity,    \* what _getLinkDensity returned
    article,        \* _postProcessContent(articleContent): the element tree
    baseURI,        \* this._doc.baseURI
    keepClasses,    \* this._keepClasses
    runs,           \* history: how many _postProcessContent runs have ended
    afterFirst,     \* history: the tree as the first run left it
    dom,            \* the children of one parent, in order
    docJSDOMParser, \* this._docJSDOMParser, for _replaceNodeTags
    nodeList,       \* _replaceNodeTags(nodeList, newTagName)
    listIndex,      \* the position of for (const node of nodeList)
    newTagName,     \* _replaceNodeTags(nodeList, newTagName)
    thrown,         \* the message of the Error thrown, "" for none
    domBefore,      \* history: the children before the call
    elem,           \* _replaceBrs(elem): its tag and its child nodes
    brList,         \* this._getAllNodesWithTag(elem, ["br"]), not yet visited
    elemBefore,     \* history: elem before the call
    parseDoc,       \* this._doc during parse(): its elements in order
    input,          \* history: the document parse() was given
    docTitle,       \* doc.title, word by word
    maxElemsToParse,\* this._maxElemsToParse
    disableJSONLD,  \* this._disableJSONLD
    jsonLd,         \* var jsonLd
    metadata,       \* var metadata
    articleTitle,   \* this._articleTitle, word by word
    steps,          \* history: the steps parse() has taken
    parseError,     \* the error parse() threw, "" for none
    scoreTree,      \* the document below the page while it is scored
    elementsToScore,\* var elementsToScore, not yet visited
    scoreFlags,     \* this._flags while the elements are scored
    scoredElements, \* history: the elements scored and their contentScore
    prepTree,       \* articleContent while _prepArticle works on it
    prepBefore,     \* history: articleContent when _prepArticle was called
    prepFlags,      \* this._flags of the attempt
    prepJSDOMParser,\* this._docJSDOMParser
    selTree,        \* the page while the top candidate is chosen
    selBefore,      \* history: the page when the choice began
    selTopCandidates,\* var topCandidates, as positions in the page
    selTop,         \* var topCandidate, 0 before it is set
    travTree,       \* the page while it is traversed
    travNode,       \* var node of the traversal, 0 for null
    travFlags       \* this._flags of the attempt

\* the locals of one pass of the loop
loopVars == <<candidates, ranked, topCandidates, topCandidate, sib, jsdom,
              nbTopCandidates>>

\* the locals of _getLinkDensity
densityVars == <<element, links, linkLength, linkDensity>>

\* the state of _grabArticle without the position
grabVars == <<doc, page, pageCacheHtml, flags, attempts, articleContent,
              textLength, result, flagsRun, touched, call, reuse, first,
              loopVars, densityVars>>

\* the state of _postProcessContent
postVars == <<article, baseURI, keepClasses, runs, afterFirst>>

\* the state of _replaceNodeTags
retagVars == <<dom, docJSDOMParser, nodeList, listIndex, newTagName, thrown,
               domBefore>>

\* the state of _replaceBrs
brsVars == <<elem, brList, elemBefore>>

\* the state of parse() before _grabArticle
parseVars == <<parseDoc, input, docTitle, maxElemsToParse, disableJSONLD,
               jsonLd, metadata, articleTitle, steps, parseError>>

\* the state of the scoring loop
scoreVars == <<scoreTree, elementsToScore, scoreFlags, scoredElements>>

\* the state of _prepArticle
prepVars == <<prepTree, prepBefore, prepFlags, prepJSDOMParser>>

\* the state of the choice of the top candidate
selectVars == <<selTree, selBefore, selTopCandidates, selTop>>

\* the state of the traversal
traverseVars == <<travTree, travNode, travFlags>>

\* the state of the steps outside _grabArticle
otherVars == <<postVars, retagVars, brsVars, parseVars, scoreVars,
              prepVars, selectVars, traverseVars>>

\* what the post steps leave alone
outsidePostVars == <<grabVars, retagVars, brsVars, parseVars, scoreVars,
                     prepVars, selectVars, traverseVars>>

\* what the retag steps leave alone
outsideRetagVars == <<grabVars, postVars, brsVars, parseVars, scoreVars,
                      prepVars, selectVars, traverseVars>>

\* what the brs steps leave alone
outsideBrsVars == <<grabVars, postVars, retagVars, parseVars, scoreVars,
                    prepVars, selectVars, traverseVars>>

\* what the parse steps leave alone
outsideParseVars == <<grabVars, postVars, retagVars, brsVars, scoreVars,
                      prepVars, selectVars, traverseVars>>

\* what the score steps leave alone
outsideScoreVars == <<grabVars, postVars, retagVars, brsVars, parseVars,
                      prepVars, selectVars, traverseVars>>

\* what the prep steps leave alone
outsidePrepVars == <<grabVars, postVars, retagVars, brsVars, parseVars,
                     scoreVars, selectVars, traverseVars>>

\* what the select steps leave alone
outsideSelectVars == <<grabVars, postVars, retagVars, brsVars, parseVars,
                       scoreVars, prepVars, traverseVars>>

\* what the traverse steps leave alone
outsideTraverseVars == <<grabVars, postVars, retagVars, brsVars, parseVars,
                         scoreVars, prepVars, selectVars>>

vars == <<doc, page, pageCacheHtml, flags, attempts, articleContent,
          textLength, result, pc, flagsRun, touched, call, reuse, first,
          loopVars, densityVars, otherVars>>

----------------------------------------------------------------------------
(* Bounds *)

MaxDocLen == 2
MaxAttemptsTracked == 6
MaxElements == 3
MaxPostRuns == 2
MaxBrSiblings == 4

\* the elements of a document parse() is run on
MaxParseElems == 3

\* the words of a document title
MaxTitleWords == 4

\* the containers above the deepest paragraph of a document scored
MaxDepth == 6

\* the <p> siblings of a top candidate
MaxParagraphs == 2

\* the elements below articleContent when it is prepared
MaxPrepNodes == 3

\* the elements below <body> when the top candidate is chosen
MaxSelectNodes == 5

\* the elements below <body> when the page is traversed
MaxTraverseNodes == 3
MaxRetagNodes == 2
MaxSiblings == 3
MaxCandidates == 6
MaxNodes == 4

(* Program constants *)

FLAG_STRIP_UNLIKELYS == 1
FLAG_WEIGHT_CLASSES == 2
FLAG_CLEAN_CONDITIONALLY == 4
DEFAULT_CHAR_THRESHOLD == 500
DEFAULT_N_TOP_CANDIDATES == 5

\* typeof node.readability === "undefined"
NoScore == [has |-> FALSE, contentScore |-> 0]
\* node.readability = { contentScore: c }
Scored(c) == [has |-> TRUE, contentScore |-> c]

----------------------------------------------------------------------------
(* Generic helpers *)

RECURSIVE SumLen(_)
SumLen(s) == IF s = <<>> THEN 0 ELSE Head(s).len + SumLen(Tail(s))

InsertAt(s, i, e) == SubSeq(s, 1, i - 1) \o <<e>> \o SubSeq(s, i, Len(s))
RemoveAt(s, i) == SubSeq(s, 1, i - 1) \o SubSeq(s, i + 1, Len(s))
Max(a, b) == IF a >= b THEN a ELSE b

----------------------------------------------------------------------------
(* Flag state management: this._flags is a bit mask, the three flags are   *)
(* single bits.                                                            *)

AllFlags == FLAG_STRIP_UNLIKELYS + FLAG_WEIGHT_CLASSES + FLAG_CLEAN_CONDITIONALLY

\* (this._flags & flag) > 0, for a single-bit flag
FlagIsActive(fl, flag) == (fl \div flag) % 2 = 1

\* this._flags = this._flags & ~flag
RemoveFlag(fl, flag) == IF FlagIsActive(fl, flag) THEN fl - flag ELSE fl

----------------------------------------------------------------------------
(* The class names of the model and what the regular expressions answer on *)
(* them.  matchString is className + " " + id; elements carry no id here.  *)

ClassNames == {"", "sidebar", "article"}

\* REGEXPS.unlikelyCandidates.test(matchString)
UnlikelyCandidates(cls) == cls \in {"sidebar"}
\* REGEXPS.okMaybeItsACandidate.test(matchString)
OkMaybeItsACandidate(cls) == cls \in {"article"}
\* REGEXPS.negative.test(e.className)
NegativeClass(cls) == cls \in {"sidebar", "article-sidebar"}
\* REGEXPS.positive.test(e.className)
PositiveClass(cls) == cls \in {"article", "article-sidebar"}

\* the unlikely-candidate test of the traversal loop; the elements of the
\* model are direct children of the page, so none has a table or code ancestor
IsUnlikelyCandidate(n, fl) ==
    /\ FlagIsActive(fl, FLAG_STRIP_UNLIKELYS)
    /\ UnlikelyCandidates(n.cls)
    /\ ~OkMaybeItsACandidate(n.cls)
    /\ n.tag # "BODY"
    /\ n.tag # "A"

\* the flag is not looked at
ClassWeightAlways(className, id, fl) ==
    (IF className # "" /\ NegativeClass(className) THEN -2500 ELSE 0)
    + (IF className # "" /\ PositiveClass(className) THEN 2500 ELSE 0)
    + (IF id # "" /\ NegativeClass(id) THEN -2500 ELSE 0)
    + (IF id # "" /\ PositiveClass(id) THEN 2500 ELSE 0)

\* _getClassWeight(e) from e.className and e.id, in hundredths
ClassWeight(className, id, fl) ==
    IF ~FlagIsActive(fl, FLAG_WEIGHT_CLASSES) THEN 0
    ELSE (IF className # "" /\ NegativeClass(className) THEN -2500 ELSE 0)
         + (IF className # "" /\ PositiveClass(className) THEN 2500 ELSE 0)
         + (IF id # "" /\ NegativeClass(id) THEN -2500 ELSE 0)
         + (IF id # "" /\ PositiveClass(id) THEN 2500 ELSE 0)

\* _getClassWeight of an element of the page, which has no id attribute
GetClassWeight(n, fl) == ClassWeight(n.cls, "", fl)

\* the tag seed of _initializeNode, in hundredths
TagSeed(tag) ==
    CASE tag = "DIV" -> 500
      [] tag \in {"PRE", "TD", "BLOCKQUOTE"} -> 300
      [] tag \in {"ADDRESS", "OL", "UL", "DL", "DD", "DT", "LI", "FORM"} -> -300
      [] tag \in {"H1", "H2", "H3", "H4", "H5", "H6", "TH"} -> -500
      [] OTHER -> 0

\* _initializeNode: the seed plus the class weight
InitializeNode(n, fl) == TagSeed(n.tag) + GetClassWeight(n, fl)

----------------------------------------------------------------------------
(* Candidate ranking.  A candidate is an element record whose readability  *)
(* field holds its contentScore (hundredths) and whose ld field holds its  *)
(* link density (percent).                                                 *)

\* "Each candidate's score is adjusted based on its link density":
\* candidateScore = contentScore * (1 - linkDensity), kept in the annotation
\* that the ranking loop and the later selection steps read
AdjustCandidate(c) ==
    [c EXCEPT !.readability =
        Scored((c.readability.contentScore * (100 - c.ld)) \div 100)]

\* the index t (0-based) at which the ranking loop splices the candidate,
\* or nb when the loop ends without inserting it
RankSlot(tops, c, nb) ==
    LET hits == {t \in 0..(nb - 1) :
                    \/ t >= Len(tops)
                    \/ c.readability.contentScore > tops[t + 1].readability.contentScore}
    IN IF hits = {} THEN nb
       ELSE CHOOSE t \in hits : \A u \in hits : t <= u

RankInsertNoPop(tops, c, nb) ==
    LET t == RankSlot(tops, c, nb)
    IN IF t = nb THEN tops ELSE InsertAt(tops, t + 1, c)

\* the ranking loop: splice at the first slot the candidate beats, pop the
\* tail when the list grew past nbTopCandidates
RankInsert(tops, c, nb) ==
    LET t == RankSlot(tops, c, nb)
    IN IF t = nb THEN tops
       ELSE LET spliced == InsertAt(tops, t + 1, c)
            IN IF Len(spliced) > nb THEN SubSeq(spliced, 1, Len(spliced) - 1)
               ELSE spliced

RECURSIVE RankAll(_, _, _)
RankAll(cands, tops, nb) ==
    IF cands = <<>> THEN tops
    ELSE RankAll(Tail(cands), RankInsert(tops, Head(cands), nb), nb)

----------------------------------------------------------------------------
(* Retagging and sibling assembly.  An element's id is its object          *)
(* identity; an element that createElement made to replace element n has   *)
(* the id -n.                                                              *)

ALTER_TO_DIV_EXCEPTIONS == {"DIV", "ARTICLE", "SECTION", "P", "OL", "UL"}

\* the element an id stands for before any retagging
Origin(id) == IF id < 0 THEN -id ELSE id

\* _setNodeTag: in place under JSDOMParser; otherwise a new element that
\* takes the children, the readability annotation and the attributes
SetNodeTag(node, tag, inPlace) ==
    IF inPlace THEN [node EXCEPT !.tag = tag]
    ELSE [node EXCEPT !.tag = tag, !.id = -node.id]

\* Math.max(10, topCandidate.readability.contentScore * 0.2), times five
SiblingScoreThreshold5(top) == Max(5000, top.readability.contentScore)

\* contentBonus, times five
ContentBonus5(sibling, top) ==
    IF sibling.cls = top.cls /\ top.cls # "" THEN top.readability.contentScore ELSE 0

\* a paragraph of 80 characters counts as long
ParagraphRuleFrom80(sibling) ==
    \/ sibling.len >= 80 /\ sibling.ld < 25
    \/ /\ sibling.len < 80
       /\ sibling.len > 0
       /\ sibling.ld = 0
       /\ sibling.dot

\* the special handling of <p> siblings
ParagraphRule(sibling) ==
    \/ sibling.len > 80 /\ sibling.ld < 25
    \/ /\ sibling.len < 80
       /\ sibling.len > 0
       /\ sibling.ld = 0
       /\ sibling.dot

\* the sibling inclusion logic: the value of `append`
ShouldAppend(sibling, top) ==
    \/ sibling.id = top.id
    \/ /\ sibling.readability.has
       /\ 5 * sibling.readability.contentScore + ContentBonus5(sibling, top)
              >= SiblingScoreThreshold5(top)
    \/ /\ ~(/\ sibling.readability.has
             /\ 5 * sibling.readability.contentScore + ContentBonus5(sibling, top)
                    >= SiblingScoreThreshold5(top))
       /\ sibling.tag = "P"
       /\ ParagraphRule(sibling)

SiblingStepNoIndexFix(st, top, inPlace) ==
    LET sibling == st.siblings[st.s + 1]
        node == IF sibling.tag \notin ALTER_TO_DIV_EXCEPTIONS
                THEN SetNodeTag(sibling, "DIV", inPlace) ELSE sibling
    IN IF ShouldAppend(sibling, top)
       THEN [siblings |-> RemoveAt(st.siblings, st.s + 1),
             s |-> st.s + 1, sl |-> st.sl - 1,
             content |-> Append(st.content, node),
             evaluated |-> Append(st.evaluated, sibling.id)]
       ELSE [st EXCEPT !.s = st.s + 1,
                       !.evaluated = Append(st.evaluated, sibling.id)]

\* one iteration of the sibling loop, the s++ of the for statement included
SiblingStep(st, top, inPlace) ==
    LET sibling == st.siblings[st.s + 1]
        node == IF sibling.tag \notin ALTER_TO_DIV_EXCEPTIONS
                THEN SetNodeTag(sibling, "DIV", inPlace) ELSE sibling
    IN IF ShouldAppend(sibling, top)
       THEN \* appendChild detaches; siblings refreshed; s -= 1; sl -= 1; s++
            [siblings |-> RemoveAt(st.siblings, st.s + 1),
             s |-> st.s, sl |-> st.sl - 1,
             content |-> Append(st.content, node),
             evaluated |-> Append(st.evaluated, sibling.id)]
       ELSE [st EXCEPT !.s = st.s + 1,
                       !.evaluated = Append(st.evaluated, sibling.id)]

\* for (var s = 0, sl = siblings.length; ...)
SiblingLoopInit(siblings) ==
    [siblings |-> siblings, s |-> 0, sl |-> Len(siblings),
     content |-> <<>>, evaluated |-> <<>>]

\* the loop test s < sl
SiblingLoopRuns(st) == st.s < st.sl

RECURSIVE AssembleSiblings(_, _, _)
AssembleSiblings(st, top, inPlace) ==
    IF SiblingLoopRuns(st) THEN AssembleSiblings(SiblingStep(st, top, inPlace), top, inPlace)
    ELSE st

----------------------------------------------------------------------------
(* One extraction attempt over the children of the page, as far as the     *)
(* flags decide it.  An element record carries                             *)
(*   base : the content score its scored descendants propagated to it      *)
(*          (hundredths; 0 when it has none and is never initialized),     *)
(*   len  : the length of its normalized inner text,                       *)
(*   ld   : its link density in percent,                                   *)
(*   dot  : whether its text matches /\.( |$)/.                            *)

CleanConditionallyTags == {"FORM", "FIELDSET", "TABLE", "UL", "DIV", "OL", "DL"}

\* the traversal: unlikely cands are removed from the page
StripUnlikelys(nodes, fl) ==
    SelectSeq(nodes, LAMBDA n : ~IsUnlikelyCandidate(n, fl))

\* scoring: an ancestor of a scored element is initialized on first touch and
\* receives the propagated score
ScoreNode(n, fl) ==
    IF n.base = 0 THEN n
    ELSE [n EXCEPT !.readability = Scored(InitializeNode(n, fl) + n.base)]

ScoreAll(nodes, fl) == [i \in 1..Len(nodes) |-> ScoreNode(nodes[i], fl)]

\* the elements that were initialized are the cands
Candidates(nodes) == SelectSeq(nodes, LAMBDA n : n.readability.has)

\* the ranking loop seen from the page: the adjusted score is on the element
WriteBack(nodes, c) ==
    [i \in 1..Len(nodes) |-> IF nodes[i].id = c.id THEN c ELSE nodes[i]]

AdjustAll(nodes) ==
    [i \in 1..Len(nodes) |->
        IF nodes[i].readability.has THEN AdjustCandidate(nodes[i]) ELSE nodes[i]]

RECURSIVE LinkLen(_)
LinkLen(nodes) ==
    IF nodes = <<>> THEN 0
    ELSE Head(nodes).len * Head(nodes).ld + LinkLen(Tail(nodes))

\* topCandidates[0] || null
NoCandidate ==
    [id |-> 0, tag |-> "#null", cls |-> "", base |-> 0, len |-> 0, ld |-> 0,
     dot |-> FALSE, readability |-> NoScore]

\* no candidate: a new DIV takes all the children of the page, is appended to
\* the page and initialized
FabricatedTop(nodes, fl) ==
    LET div == [id |-> 0, tag |-> "DIV", cls |-> "", base |-> 0,
                len |-> SumLen(nodes),
                ld |-> IF SumLen(nodes) = 0 THEN 0 ELSE LinkLen(nodes) \div SumLen(nodes),
                dot |-> FALSE, readability |-> NoScore]
    IN [div EXCEPT !.readability = Scored(InitializeNode(div, fl))]

\* var topCandidate = topCandidates[0] || null, with the fallback
SelectTopCandidate(tops, nodes, fl) ==
    IF tops = <<>> THEN FabricatedTop(nodes, fl) ELSE tops[1]

\* the children of the top candidate's parent when the sibling loop starts
SiblingsOf(tops, nodes, fl) ==
    IF tops = <<>> THEN <<FabricatedTop(nodes, fl)>> ELSE nodes

\* _cleanConditionally's verdict on one element of articleContent
CleansConditionally(n, fl) ==
    /\ FlagIsActive(fl, FLAG_CLEAN_CONDITIONALLY)
    /\ n.tag \in CleanConditionallyTags
    /\ LET weight == GetClassWeight(n, fl)
           score == IF n.readability.has THEN n.readability.contentScore ELSE 0
       IN \/ weight + score < 0
          \/ weight < 2500 /\ n.ld > 20
          \/ weight >= 2500 /\ n.ld > 50

CleanConditionally(nodes, fl) ==
    SelectSeq(nodes, LAMBDA n : ~CleansConditionally(n, fl))

\* one pass of the loop body up to the length check, as a function of the
\* page and the flags: what is left below the page and the articleContent
GrabOnce(nodes, fl, inPlace) ==
    LET kept == AdjustAll(ScoreAll(StripUnlikelys(nodes, fl), fl))
        tops == RankAll(Candidates(kept), <<>>, DEFAULT_N_TOP_CANDIDATES)
        st == AssembleSiblings(SiblingLoopInit(SiblingsOf(tops, kept, fl)),
                               SelectTopCandidate(tops, kept, fl), inPlace)
    IN [page |-> st.siblings, content |-> CleanConditionally(st.content, fl)]

----------------------------------------------------------------------------
(* page.innerHTML: the markup keeps tags, attributes and text; it keeps    *)
(* neither the identity of the element objects nor their readability       *)
(* annotation.  Assigning it builds new elements.                          *)

SerializeNode(n) ==
    [tag |-> n.tag, cls |-> n.cls, base |-> n.base, len |-> n.len,
     ld |-> n.ld, dot |-> n.dot]

\* page.innerHTML (read)
Serialize(nodes) == [i \in 1..Len(nodes) |-> SerializeNode(nodes[i])]

\* page.innerHTML = html (write)
Parse(html) ==
    [i \in 1..Len(html) |->
        [id |-> i, tag |-> html[i].tag, cls |-> html[i].cls, base |-> html[i].base,
         len |-> html[i].len, ld |-> html[i].ld, dot |-> html[i].dot,
         readability |-> NoScore]]

RestorePageKeep(current, html) == current

\* page.innerHTML = pageCacheHtml
RestorePage(current, html) == Parse(html)

----------------------------------------------------------------------------
(* Link density.  The subtree of an element is a sequence of nodes, each   *)
(* naming its parent by position (0 for the element itself, which is node  *)
(* 1).  A text node carries the length its text keeps in _getInnerText.    *)

\* REGEXPS.hashUrl.test(href)
HashUrl(href) == href \in {"#top"}

RECURSIVE HasAncestor(_, _, _)
HasAncestor(tree, n, a) ==
    /\ tree[n].parent # 0
    /\ \/ tree[n].parent = a
       \/ HasAncestor(tree, tree[n].parent, a)

RECURSIVE TextFrom(_, _, _)
TextFrom(tree, n, i) ==
    IF i > Len(tree) THEN 0
    ELSE (IF tree[i].kind = "#text" /\ HasAncestor(tree, i, n) THEN tree[i].len ELSE 0)
         + TextFrom(tree, n, i + 1)

\* this._getInnerText(node).length
InnerTextLength(tree, n) == TextFrom(tree, n, 1)

RECURSIVE LinksFrom(_, _)
LinksFrom(tree, i) ==
    IF i > Len(tree) THEN <<>>
    ELSE (IF tree[i].kind = "A" /\ HasAncestor(tree, i, 1) THEN <<i>> ELSE <<>>)
         \o LinksFrom(tree, i + 1)

\* element.getElementsByTagName("a"): every <a> descendant
GetElementsByTagNameA(tree) == LinksFrom(tree, 1)

\* href && this.REGEXPS.hashUrl.test(href) ? 0.3 : 1, in tenths
Coefficient(href) == IF href # "" /\ HashUrl(href) THEN 3 ELSE 10

\* linkLength / textLength, as the pair of linkLength in tenths and
\* ten times textLength
Ratio(num, den) == [num |-> num, den |-> den]

NoDensity == Ratio(0, 0)

DensityIdle ==
    /\ element = <<>>
    /\ links = <<>>
    /\ linkLength = 0
    /\ linkDensity = NoDensity

\* no _postProcessContent call is running
PostIdle ==
    /\ article = <<>>
    /\ baseURI = ""
    /\ keepClasses = FALSE
    /\ runs = 0
    /\ afterFirst = <<>>

\* no _replaceNodeTags call is running
RetagIdle ==
    /\ dom = <<>>
    /\ docJSDOMParser = FALSE
    /\ nodeList = <<>>
    /\ listIndex = 0
    /\ newTagName = ""
    /\ thrown = ""
    /\ domBefore = <<>>

\* no _replaceBrs call is running
BrsIdle ==
    /\ elem = <<>>
    /\ brList = <<>>
    /\ elemBefore = <<>>

\* parse() has not been called
ParseIdle ==
    /\ parseDoc = <<>>
    /\ input = <<>>
    /\ docTitle = <<>>
    /\ maxElemsToParse = 0
    /\ disableJSONLD = FALSE
    /\ jsonLd = [title |-> "", byline |-> ""]
    /\ metadata = [title |-> "", byline |-> ""]
    /\ articleTitle = <<>>
    /\ steps = <<>>
    /\ parseError = ""

\* the scoring loop is not running
ScoreIdle ==
    /\ scoreTree = <<>>
    /\ elementsToScore = <<>>
    /\ scoreFlags = 0
    /\ scoredElements = <<>>

\* _prepArticle is not running
PrepIdle ==
    /\ prepTree = <<>>
    /\ prepBefore = <<>>
    /\ prepFlags = 0
    /\ prepJSDOMParser = FALSE

\* the top candidate is not being chosen
SelectIdle ==
    /\ selTree = <<>>
    /\ selBefore = <<>>
    /\ selTopCandidates = <<>>
    /\ selTop = 0

\* the traversal is not running
TraverseIdle ==
    /\ travTree = <<>>
    /\ travNode = 0
    /\ travFlags = 0

\* the steps outside _grabArticle are not running
OtherIdle ==
    /\ PostIdle
    /\ RetagIdle
    /\ BrsIdle
    /\ ParseIdle
    /\ ScoreIdle
    /\ PrepIdle
    /\ SelectIdle
    /\ TraverseIdle

----------------------------------------------------------------------------
(* The retry controller *)

NoResult == [kind |-> "pending", children |-> <<>>]
NullResult == [kind |-> "null", children |-> <<>>]
Element(children) == [kind |-> "element", children |-> children]

TooShortOrEqual(len) == len <= DEFAULT_CHAR_THRESHOLD

\* textLength < this._charThreshold
TooShort(len) == len < DEFAULT_CHAR_THRESHOLD

RelaxFlagsResetting(fl) ==
    IF FlagIsActive(fl, FLAG_STRIP_UNLIKELYS) THEN RemoveFlag(fl, FLAG_STRIP_UNLIKELYS)
    ELSE fl + FLAG_STRIP_UNLIKELYS

RelaxFlagsWeightFirst(fl) ==
    IF FlagIsActive(fl, FLAG_WEIGHT_CLASSES) THEN RemoveFlag(fl, FLAG_WEIGHT_CLASSES)
    ELSE IF FlagIsActive(fl, FLAG_STRIP_UNLIKELYS) THEN RemoveFlag(fl, FLAG_STRIP_UNLIKELYS)
    ELSE IF FlagIsActive(fl, FLAG_CLEAN_CONDITIONALLY)
         THEN RemoveFlag(fl, FLAG_CLEAN_CONDITIONALLY)
    ELSE fl

\* the if / else-if chain of the progressive flag removal
RelaxFlags(fl) ==
    IF FlagIsActive(fl, FLAG_STRIP_UNLIKELYS) THEN RemoveFlag(fl, FLAG_STRIP_UNLIKELYS)
    ELSE IF FlagIsActive(fl, FLAG_WEIGHT_CLASSES) THEN RemoveFlag(fl, FLAG_WEIGHT_CLASSES)
    ELSE IF FlagIsActive(fl, FLAG_CLEAN_CONDITIONALLY)
         THEN RemoveFlag(fl, FLAG_CLEAN_CONDITIONALLY)
    ELSE fl

RECURSIVE InsertAscending(_, _)
InsertAscending(sorted, a) ==
    IF sorted = <<>> THEN <<a>>
    ELSE IF Head(sorted).textLength - a.textLength > 0
         THEN <<a>> \o sorted
         ELSE <<Head(sorted)>> \o InsertAscending(Tail(sorted), a)

\* where a stable sort by the comparator b.textLength - a.textLength puts a
\* among the already sorted elements that preceded it
RECURSIVE InsertSorted(_, _)
InsertSorted(sorted, a) ==
    IF sorted = <<>> THEN <<a>>
    ELSE IF a.textLength - Head(sorted).textLength > 0
         THEN <<a>> \o sorted
         ELSE <<Head(sorted)>> \o InsertSorted(Tail(sorted), a)

RECURSIVE SortFrom(_, _)
SortFrom(sorted, rest) ==
    IF rest = <<>> THEN sorted
    ELSE SortFrom(InsertSorted(sorted, Head(rest)), Tail(rest))

\* this._attempts.sort(function (a, b) { return b.textLength - a.textLength; })
SortAttempts(as) == SortFrom(<<>>, as)

BestAttemptOrNull(as) ==
    IF as[1].textLength = 0 THEN NullResult ELSE as[1].articleContent

\* articleContent = this._attempts[0].articleContent, on the sorted list
BestAttempt(as) == as[1].articleContent

ConstructorFlagsShared(left) == left

\* the constructor: this._flags = FLAG_STRIP_UNLIKELYS | FLAG_WEIGHT_CLASSES |
\* FLAG_CLEAN_CONDITIONALLY, whatever an earlier instance left in its own
ConstructorFlags(left) == AllFlags

\* the documents of the model: up to MaxDocLen block elements below the page
ElementMarkup ==
    [tag : {"DIV"}, cls : ClassNames, base : {500, 6000}, len : {100, 500},
     ld : {0, 30}, dot : {TRUE}]

Docs == UNION {[1..n -> ElementMarkup] : n \in 0..MaxDocLen}

\* the locals of one pass of the loop before the pass has set them
NoSiblingLoop == SiblingLoopInit(<<>>)

\* new Readability(doc): all three flags set, no attempts
Init ==
    /\ doc \in Docs
    /\ page = Parse(doc)
    /\ pageCacheHtml = <<>>
    /\ flags = ConstructorFlags(AllFlags)
    /\ attempts = <<>>
    /\ articleContent = NoResult
    /\ textLength = 0
    /\ result = NoResult
    /\ pc = "enter"
    /\ flagsRun = <<>>
    /\ touched = FALSE
    /\ call = 1
    /\ reuse = "none"
    /\ first = [n |-> 0, content |-> NoResult]
    /\ DensityIdle
    /\ candidates = <<>>
    /\ ranked = <<>>
    /\ topCandidates = <<>>
    /\ topCandidate = NoCandidate
    /\ sib = NoSiblingLoop
    /\ jsdom = FALSE
    /\ nbTopCandidates = DEFAULT_N_TOP_CANDIDATES
    /\ OtherIdle

\* _grabArticle entered: var pageCacheHtml = page.innerHTML
GrabArticleEnter ==
    /\ pc = "enter"
    /\ pageCacheHtml' = Serialize(page)
    /\ pc' = "loop"
    /\ UNCHANGED <<otherVars, doc, page, flags, attempts, articleContent, textLength, result,
                   flagsRun, touched, call, reuse, first, loopVars, densityVars>>

\* the top of while (true): the traversal strips and scores under the flags
Traverse ==
    /\ pc = "loop"
    /\ Len(flagsRun) < MaxAttemptsTracked
    /\ page' = ScoreAll(StripUnlikelys(page, flags), flags)
    /\ candidates' = Candidates(page')
    /\ ranked' = <<>>
    /\ topCandidates' = <<>>
    /\ flagsRun' = Append(flagsRun, flags)
    /\ pc' = "rank"
    /\ UNCHANGED <<otherVars, doc, pageCacheHtml, flags, attempts, articleContent, textLength,
                   result, touched, call, reuse, first, topCandidate, sib, jsdom,
                   nbTopCandidates, densityVars>>

\* one iteration of the loop over the candidates: adjust the score by the
\* link density, then place the candidate among the top candidates
RankStep ==
    /\ pc = "rank"
    /\ candidates # <<>>
    /\ LET c == AdjustCandidate(Head(candidates))
       IN /\ topCandidates' = RankInsert(topCandidates, c, nbTopCandidates)
          /\ page' = WriteBack(page, c)
          /\ ranked' = Append(ranked, c)
    /\ candidates' = Tail(candidates)
    /\ UNCHANGED <<otherVars, doc, pageCacheHtml, flags, attempts, articleContent, textLength,
                   result, pc, flagsRun, touched, call, reuse, first, topCandidate,
                   sib, jsdom, nbTopCandidates, densityVars>>

\* the top candidate is chosen (or made) and the sibling loop is set up
SelectTop ==
    /\ pc = "rank"
    /\ candidates = <<>>
    /\ topCandidate' = SelectTopCandidate(topCandidates, page, flags)
    /\ page' = SiblingsOf(topCandidates, page, flags)
    /\ sib' = SiblingLoopInit(page')
    /\ pc' = "siblings"
    /\ UNCHANGED <<otherVars, doc, pageCacheHtml, flags, attempts, articleContent, textLength,
                   result, flagsRun, touched, call, reuse, first, candidates, ranked,
                   topCandidates, jsdom, nbTopCandidates, densityVars>>

\* one iteration of the sibling loop
AppendSibling ==
    /\ pc = "siblings"
    /\ SiblingLoopRuns(sib)
    /\ sib' = SiblingStep(sib, topCandidate, jsdom)
    /\ page' = sib'.siblings
    /\ UNCHANGED <<otherVars, doc, pageCacheHtml, flags, attempts, articleContent, textLength,
                   result, pc, flagsRun, touched, call, reuse, first, candidates,
                   ranked, topCandidates, topCandidate, jsdom, nbTopCandidates,
                   densityVars>>

\* after the sibling loop: _prepArticle, then the text length is measured
PrepArticle ==
    /\ pc = "siblings"
    /\ ~SiblingLoopRuns(sib)
    /\ articleContent' = Element(CleanConditionally(sib.content, flags))
    /\ textLength' = SumLen(articleContent'.children)
    /\ touched' = (Serialize(page) # pageCacheHtml)
    /\ pc' = "check"
    /\ UNCHANGED <<otherVars, doc, page, pageCacheHtml, flags, attempts, result, flagsRun,
                   call, reuse, first, loopVars, densityVars>>

\* textLength >= charThreshold: parseSuccessful stays true, the loop returns
AcceptAttempt ==
    /\ pc = "check"
    /\ ~TooShort(textLength)
    /\ result' = articleContent
    /\ pc' = "done"
    /\ first' = IF call = 1 THEN [n |-> Len(flagsRun), content |-> articleContent]
                ELSE first
    /\ UNCHANGED <<otherVars, doc, page, pageCacheHtml, flags, attempts, articleContent,
                   textLength, flagsRun, touched, call, reuse, loopVars, densityVars>>

\* textLength < charThreshold: restore the page, record the attempt, then
\* clear the next flag, or, with none left, return the longest attempt
RejectAttempt ==
    /\ pc = "check"
    /\ TooShort(textLength)
    /\ page' = RestorePage(page, pageCacheHtml)
    /\ LET pushed == Append(attempts, [articleContent |-> articleContent,
                                        textLength |-> textLength])
       IN IF RelaxFlags(flags) # flags
          THEN /\ flags' = RelaxFlags(flags)
               /\ attempts' = pushed
               /\ pc' = "loop"
               /\ UNCHANGED <<result, first>>
          ELSE /\ attempts' = SortAttempts(pushed)
               /\ result' = BestAttempt(attempts')
               /\ pc' = "done"
               /\ first' = IF call = 1
                           THEN [n |-> Len(flagsRun), content |-> result']
                           ELSE first
               /\ UNCHANGED flags
    /\ UNCHANGED <<otherVars, doc, pageCacheHtml, articleContent, textLength, flagsRun,
                   touched, call, reuse, loopVars, densityVars>>

Next ==
    \/ GrabArticleEnter
    \/ Traverse
    \/ RankStep
    \/ SelectTop
    \/ AppendSibling
    \/ PrepArticle
    \/ AcceptAttempt
    \/ RejectAttempt

\* one parse() on a newly constructed Readability
Spec == Init /\ [][Next]_vars

\* reader.parse() a second time on the same Readability: the fields and the
\* document are as the first call left them
ParseAgain ==
    /\ pc = "done"
    /\ call = 1
    /\ call' = 2
    /\ reuse' = "instance"
    /\ pc' = "enter"
    /\ flagsRun' = <<>>
    /\ result' = NoResult
    /\ UNCHANGED <<otherVars, doc, page, pageCacheHtml, flags, attempts, articleContent,
                   textLength, touched, first, loopVars, densityVars>>

\* new Readability(doc).parse() on the document the first call worked on
ParseSameDocument ==
    /\ pc = "done"
    /\ call = 1
    /\ call' = 2
    /\ reuse' = "document"
    /\ flags' = ConstructorFlags(flags)
    /\ attempts' = <<>>
    /\ pc' = "enter"
    /\ flagsRun' = <<>>
    /\ result' = NoResult
    /\ UNCHANGED <<otherVars, doc, page, pageCacheHtml, articleContent, textLength, touched,
                   first, loopVars, densityVars>>

\* new Readability(copy).parse() on a copy taken before the first call
ParseCopy ==
    /\ pc = "done"
    /\ call = 1
    /\ call' = 2
    /\ reuse' = "copy"
    /\ flags' = ConstructorFlags(flags)
    /\ attempts' = <<>>
    /\ page' = Parse(doc)
    /\ pc' = "enter"
    /\ flagsRun' = <<>>
    /\ result' = NoResult
    /\ UNCHANGED <<otherVars, doc, pageCacheHtml, articleContent, textLength, touched,
                   first, loopVars, densityVars>>

NextTwice == Next \/ ParseAgain \/ ParseSameDocument \/ ParseCopy

\* parse() called, and after its return called a second time
SpecTwice == Init /\ [][NextTwice]_vars

\* parse() is synchronous: once called it runs to its return
FairSpec == Spec /\ WF_vars(Next)
----------------------------------------------------------------------------
(* The sibling loop on its own: the children of the top candidate's        *)
(* parent, of any tag and score, under either DOM implementation.          *)

SiblingElements ==
    [tag : {"DIV", "TD"}, cls : {""}, base : {0},
     readability : {NoScore, Scored(900), Scored(6000)},
     len : {100}, ld : {0}, dot : {TRUE}]
    \cup [tag : {"DIV"}, cls : {"article"}, base : {0},
          readability : {Scored(900), Scored(6000)},
          len : {100}, ld : {0}, dot : {TRUE}]
    \cup [tag : {"P"}, cls : {""}, base : {0},
          readability : {NoScore, Scored(900)},
          len : {100}, ld : {0, 30}, dot : {TRUE}]

WithIds(elements) ==
    [i \in 1..Len(elements) |->
        [id |-> i, tag |-> elements[i].tag, cls |-> elements[i].cls,
         base |-> elements[i].base, len |-> elements[i].len,
         ld |-> elements[i].ld, dot |-> elements[i].dot,
         readability |-> elements[i].readability]]

\* the top candidate is the first sibling no other sibling outscores
IsTopAmong(siblings, t) ==
    /\ siblings[t].readability.has
    /\ \A u \in 1..Len(siblings) :
          siblings[u].readability.has =>
            /\ siblings[u].readability.contentScore
                  <= siblings[t].readability.contentScore
            /\ (u < t => siblings[u].readability.contentScore
                            < siblings[t].readability.contentScore)

InitSiblings ==
    /\ \E n \in 1..MaxSiblings :
         \E elements \in [1..n -> SiblingElements] :
           \E t \in 1..n :
             /\ IsTopAmong(WithIds(elements), t)
             /\ page = WithIds(elements)
             /\ topCandidate = page[t]
    /\ doc = Serialize(page)
    /\ pageCacheHtml = Serialize(page)
    /\ jsdom \in BOOLEAN
    /\ sib = SiblingLoopInit(page)
    /\ topCandidates = <<topCandidate>>
    /\ candidates = <<>>
    /\ ranked = <<>>
    /\ nbTopCandidates = DEFAULT_N_TOP_CANDIDATES
    /\ OtherIdle
    /\ flags = ConstructorFlags(AllFlags)
    /\ attempts = <<>>
    /\ articleContent = NoResult
    /\ textLength = 0
    /\ result = NoResult
    /\ pc = "siblings"
    /\ flagsRun = <<flags>>
    /\ touched = FALSE
    /\ call = 1
    /\ reuse = "none"
    /\ first = [n |-> 0, content |-> NoResult]
    /\ DensityIdle

NextSiblings == AppendSibling

SpecSiblings == InitSiblings /\ [][NextSiblings]_vars

----------------------------------------------------------------------------
(* The ranking loop on its own: up to MaxCandidates scored candidates.     *)

CandidateElements ==
    [tag : {"P"}, cls : {""}, base : {5000, 6000}, len : {100},
     ld : {0, 30}, dot : {TRUE}]

\* the candidates as the scoring left them: the score is on the element
ScoredCandidates(elements) ==
    [i \in 1..Len(elements) |->
        [id |-> i, tag |-> elements[i].tag, cls |-> elements[i].cls,
         base |-> elements[i].base, len |-> elements[i].len,
         ld |-> elements[i].ld, dot |-> elements[i].dot,
         readability |-> Scored(elements[i].base)]]

InitRank ==
    /\ \E n \in 1..MaxCandidates :
         \E elements \in [1..n -> CandidateElements] :
           /\ doc = elements
           /\ page = ScoredCandidates(elements)
    /\ candidates = page
    /\ ranked = <<>>
    /\ topCandidates = <<>>
    /\ topCandidate = NoCandidate
    /\ sib = NoSiblingLoop
    /\ jsdom = FALSE
    /\ nbTopCandidates = DEFAULT_N_TOP_CANDIDATES
    /\ OtherIdle
    /\ pageCacheHtml = doc
    /\ flags = ConstructorFlags(AllFlags)
    /\ attempts = <<>>
    /\ articleContent = NoResult
    /\ textLength = 0
    /\ result = NoResult
    /\ pc = "rank"
    /\ flagsRun = <<flags>>
    /\ touched = FALSE
    /\ call = 1
    /\ reuse = "none"
    /\ first = [n |-> 0, content |-> NoResult]
    /\ DensityIdle

NextRank == RankStep

SpecRank == InitRank /\ [][NextRank]_vars

----------------------------------------------------------------------------
(* _getLinkDensity on its own, over every small subtree of text nodes,     *)
(* links and spans.                                                        *)

ChildNodes ==
    [kind : {"#text"}, len : {3}, href : {""}]
    \cup [kind : {"A"}, len : {0}, href : {"", "#top", "/x"}]
    \cup [kind : {"SPAN"}, len : {0}, href : {""}]

Subtree(n, shapes, parents) ==
    [i \in 1..n |->
        IF i = 1 THEN [kind |-> "DIV", parent |-> 0, len |-> 0, href |-> ""]
        ELSE [kind |-> shapes[i].kind, parent |-> parents[i],
              len |-> shapes[i].len, href |-> shapes[i].href]]

InitDensity ==
    /\ \E n \in 1..MaxNodes :
         \E shapes \in [2..n -> ChildNodes] :
           \E parents \in [2..n -> 1..(n - 1)] :
             /\ \A i \in 2..n :
                   /\ parents[i] < i
                   /\ parents[i] > 1 => shapes[parents[i]].kind # "#text"
             /\ element = Subtree(n, shapes, parents)
    /\ links = <<>>
    /\ linkLength = 0
    /\ linkDensity = NoDensity
    /\ textLength = 0
    /\ pc = "density"
    /\ doc = <<>>
    /\ page = <<>>
    /\ pageCacheHtml = <<>>
    /\ flags = ConstructorFlags(AllFlags)
    /\ attempts = <<>>
    /\ articleContent = NoResult
    /\ result = NoResult
    /\ flagsRun = <<>>
    /\ touched = FALSE
    /\ call = 1
    /\ reuse = "none"
    /\ first = [n |-> 0, content |-> NoResult]
    /\ candidates = <<>>
    /\ ranked = <<>>
    /\ topCandidates = <<>>
    /\ topCandidate = NoCandidate
    /\ sib = NoSiblingLoop
    /\ jsdom = FALSE
    /\ nbTopCandidates = DEFAULT_N_TOP_CANDIDATES
    /\ OtherIdle

\* var textLength = this._getInnerText(element).length;
\* if (textLength === 0) return 0; var linkLength = 0;
GetLinkDensityEnter ==
    /\ pc = "density"
    /\ textLength' = InnerTextLength(element, 1)
    /\ IF textLength' = 0
       THEN /\ linkDensity' = Ratio(0, 1)
            /\ pc' = "densityDone"
            /\ UNCHANGED links
       ELSE /\ links' = GetElementsByTagNameA(element)
            /\ pc' = "links"
            /\ UNCHANGED linkDensity
    /\ linkLength' = 0
    /\ UNCHANGED <<otherVars, doc, page, pageCacheHtml, flags, attempts, articleContent,
                   result, flagsRun, touched, call, reuse, first, loopVars, element>>

\* one call of the _forEachNode callback
VisitLink ==
    /\ pc = "links"
    /\ links # <<>>
    /\ linkLength' = linkLength
          + InnerTextLength(element, Head(links)) * Coefficient(element[Head(links)].href)
    /\ links' = Tail(links)
    /\ UNCHANGED <<otherVars, doc, page, pageCacheHtml, flags, attempts, articleContent,
                   textLength, result, pc, flagsRun, touched, call, reuse, first,
                   loopVars, element, linkDensity>>

\* return linkLength / textLength
ReturnLinkDensity ==
    /\ pc = "links"
    /\ links = <<>>
    /\ linkDensity' = Ratio(linkLength, 10 * textLength)
    /\ pc' = "densityDone"
    /\ UNCHANGED <<otherVars, doc, page, pageCacheHtml, flags, attempts, articleContent,
                   textLength, result, flagsRun, touched, call, reuse, first,
                   loopVars, element, links, linkLength>>

NextDensity == GetLinkDensityEnter \/ VisitLink \/ ReturnLinkDensity

SpecDensity == InitDensity /\ [][NextDensity]_vars

----------------------------------------------------------------------------
(* _postProcessContent: the article content is a sequence of elements in   *)
(* document order, element 1 being articleContent itself.  An element      *)
(* keeps the index of its parent, its own text nodes summarised as "" (no  *)
(* text node), " " (whitespace only) or "x" (real content), its class and  *)
(* id attributes and its href or src.  A removed element stays in the      *)
(* sequence with alive = FALSE.                                            *)

\* _grabArticle and _getLinkDensity are not running
GrabIdle ==
    /\ doc = <<>>
    /\ page = <<>>
    /\ pageCacheHtml = <<>>
    /\ flags = ConstructorFlags(AllFlags)
    /\ attempts = <<>>
    /\ articleContent = NoResult
    /\ textLength = 0
    /\ result = NoResult
    /\ flagsRun = <<>>
    /\ touched = FALSE
    /\ call = 1
    /\ reuse = "none"
    /\ first = [n |-> 0, content |-> NoResult]
    /\ candidates = <<>>
    /\ ranked = <<>>
    /\ topCandidates = <<>>
    /\ topCandidate = NoCandidate
    /\ sib = NoSiblingLoop
    /\ jsdom = FALSE
    /\ nbTopCandidates = DEFAULT_N_TOP_CANDIDATES
    /\ DensityIdle

\* only the post steps are running
OutsidePostIdle ==
    /\ GrabIdle
    /\ RetagIdle
    /\ BrsIdle
    /\ ParseIdle
    /\ ScoreIdle
    /\ PrepIdle
    /\ SelectIdle
    /\ TraverseIdle

\* only the retag steps are running
OutsideRetagIdle ==
    /\ GrabIdle
    /\ PostIdle
    /\ BrsIdle
    /\ ParseIdle
    /\ ScoreIdle
    /\ PrepIdle
    /\ SelectIdle
    /\ TraverseIdle

\* only the brs steps are running
OutsideBrsIdle ==
    /\ GrabIdle
    /\ PostIdle
    /\ RetagIdle
    /\ ParseIdle
    /\ ScoreIdle
    /\ PrepIdle
    /\ SelectIdle
    /\ TraverseIdle

\* only the parse steps are running
OutsideParseIdle ==
    /\ GrabIdle
    /\ PostIdle
    /\ RetagIdle
    /\ BrsIdle
    /\ ScoreIdle
    /\ PrepIdle
    /\ SelectIdle
    /\ TraverseIdle

\* only the score steps are running
OutsideScoreIdle ==
    /\ GrabIdle
    /\ PostIdle
    /\ RetagIdle
    /\ BrsIdle
    /\ ParseIdle
    /\ PrepIdle
    /\ SelectIdle
    /\ TraverseIdle

\* only the prep steps are running
OutsidePrepIdle ==
    /\ GrabIdle
    /\ PostIdle
    /\ RetagIdle
    /\ BrsIdle
    /\ ParseIdle
    /\ ScoreIdle
    /\ SelectIdle
    /\ TraverseIdle

\* only the select steps are running
OutsideSelectIdle ==
    /\ GrabIdle
    /\ PostIdle
    /\ RetagIdle
    /\ BrsIdle
    /\ ParseIdle
    /\ ScoreIdle
    /\ PrepIdle
    /\ TraverseIdle

\* only the traverse steps are running
OutsideTraverseIdle ==
    /\ GrabIdle
    /\ PostIdle
    /\ RetagIdle
    /\ BrsIdle
    /\ ParseIdle
    /\ ScoreIdle
    /\ PrepIdle
    /\ SelectIdle

\* an attribute that is not set
NoAttr == [has |-> FALSE, tokens |-> <<>>]

\* class="..." split on whitespace
ClassAttr(tokens) == [has |-> TRUE, tokens |-> tokens]

\* this._doc.documentURI
DocumentURI == "http://h/d/"

\* the values of this._doc.baseURI: the document's own, or that of a <base>
BaseURIs == {DocumentURI, "http://b/"}

NoUri == [kind |-> "none", base |-> "", path |-> ""]
RelativeUri == [kind |-> "relative", base |-> "", path |-> "i.png"]
HashUri == [kind |-> "hash", base |-> "", path |-> "#top"]
JavascriptUri == [kind |-> "javascript", base |-> "", path |-> "f()"]
InvalidUri == [kind |-> "invalid", base |-> "", path |-> "http://["]
AbsoluteUri(base, path) == [kind |-> "absolute", base |-> base, path |-> path]

\* toAbsoluteURI(uri): a hash link is left alone when the base URI is the
\* document URI; new URL(uri, baseURI).href resolves a relative reference
\* and returns an absolute one as it is; when it throws the original is kept
ToAbsoluteURI(uri, base) ==
    IF base = DocumentURI /\ uri.kind = "hash" THEN uri
    ELSE IF uri.kind \in {"relative", "hash"} THEN AbsoluteUri(base, uri.path)
    ELSE uri

\* node.children
Children(t, i) == {j \in DOMAIN t : t[j].alive /\ t[j].parent = i}

\* j is a descendant of i
RECURSIVE Inside(_, _, _)
Inside(t, j, i) ==
    IF t[j].parent = 0 THEN FALSE
    ELSE t[j].parent = i \/ Inside(t, t[j].parent, i)

\* node.getElementsByTagName(tag)
ElementsByTagName(t, i, tag) ==
    {j \in DOMAIN t : t[j].alive /\ t[j].tag = tag /\ Inside(t, j, i)}

\* node.textContent.trim().length
HasTextContent(t, i) ==
    \/ t[i].text = "x"
    \/ \E j \in DOMAIN t : t[j].alive /\ Inside(t, j, i) /\ t[j].text = "x"

\* the links with a javascript: URI: one whose only child is a text node
\* is replaced by that text, any other by a <span> holding its children
ReplaceJavascriptLink(t, i) ==
    IF Children(t, i) = {} /\ t[i].text # ""
    THEN [t EXCEPT ![i].alive = FALSE,
                   ![t[i].parent].text =
                       IF t[i].text = "x" \/ @ = "x" THEN "x" ELSE " "]
    ELSE [t EXCEPT ![i].tag = "SPAN", ![i].uri = NoUri,
                   ![i].class = NoAttr, ![i].id = ""]

\* the callback of _fixRelativeUris on one link or media element
FixUri(t, i, base) ==
    IF ~t[i].alive \/ t[i].uri.kind = "none" THEN t
    ELSE IF t[i].tag = "A" /\ t[i].uri.kind = "javascript"
         THEN ReplaceJavascriptLink(t, i)
         ELSE [t EXCEPT ![i].uri = ToAbsoluteURI(@, base)]

\* _fixRelativeUris(articleContent): the links, then the media elements
RECURSIVE FixFrom(_, _, _)
FixFrom(t, i, base) ==
    IF i > Len(t) THEN t ELSE FixFrom(FixUri(t, i, base), i + 1, base)

FixRelativeUris(t, base) == FixFrom(t, 1, base)

\* _isElementWithoutContent(node)
IsElementWithoutContent(t, i) ==
    /\ ~HasTextContent(t, i)
    /\ \/ Children(t, i) = {}
       \/ Cardinality(Children(t, i)) =
              Cardinality(ElementsByTagName(t, i, "BR"))
                + Cardinality(ElementsByTagName(t, i, "HR"))

\* _hasSingleTagInsideElement(element, tag)
HasSingleTagInsideElement(t, i, tag) ==
    /\ Cardinality(Children(t, i)) = 1
    /\ \A j \in Children(t, i) : t[j].tag = tag
    /\ t[i].text # "x"

\* _getNextNode(node): the next element in document order, 0 for null
GetNextNode(t, i) ==
    IF \E j \in DOMAIN t : j > i /\ t[j].alive
    THEN CHOOSE j \in DOMAIN t :
             /\ j > i /\ t[j].alive
             /\ \A k \in DOMAIN t : k > i /\ t[k].alive => j <= k
    ELSE 0

\* node.parentNode.removeChild(node): the element goes with its subtree
RemoveNode(t, i) ==
    [j \in DOMAIN t |->
        IF j = i \/ Inside(t, j, i) THEN [t[j] EXCEPT !.alive = FALSE]
        ELSE t[j]]

\* _removeAndGetNext(node): the element after the subtree of node, which
\* is the next one left once the subtree is gone
RemoveAndGetNext(t, i) == GetNextNode(RemoveNode(t, i), i)

\* child.setAttributeNode(node.attributes[i].cloneNode()) for every
\* attribute of the parent, then node.parentNode.replaceChild(child, node)
Unwrap(t, i, child) ==
    [t EXCEPT ![i].alive = FALSE,
              ![child].parent = t[i].parent,
              ![child].class = IF t[i].class.has THEN t[i].class ELSE @,
              ![child].id = IF t[i].id # "" THEN t[i].id ELSE @,
              ![child].uri = IF t[i].uri.kind # "none" THEN t[i].uri ELSE @]

\* the condition under which _simplifyNestedElements processes the node
IsSimplified(t, i) ==
    /\ t[i].parent # 0
    /\ t[i].tag \in {"DIV", "SECTION"}
    /\ t[i].id # "readability-page-1"

\* the while (node) loop of _simplifyNestedElements from node i on
RECURSIVE SimplifyFrom(_, _)
SimplifyFrom(t, i) ==
    IF i = 0 THEN t
    ELSE IF IsSimplified(t, i) /\ IsElementWithoutContent(t, i)
         THEN SimplifyFrom(RemoveNode(t, i), RemoveAndGetNext(t, i))
    ELSE IF /\ IsSimplified(t, i)
            /\ \/ HasSingleTagInsideElement(t, i, "DIV")
               \/ HasSingleTagInsideElement(t, i, "SECTION")
         THEN LET child == CHOOSE j \in Children(t, i) : TRUE
              IN  SimplifyFrom(Unwrap(t, i, child), child)
    ELSE SimplifyFrom(t, GetNextNode(t, i))

\* _simplifyNestedElements(articleContent)
SimplifyNestedElements(t) == SimplifyFrom(t, 1)

\* CLASSES_TO_PRESERVE
ClassesToPreserve == {"page"}

\* _cleanClasses on one node: keep the preserved tokens, set the attribute
\* when any is left and remove it otherwise
CleanClass(c) ==
    LET className == SelectSeq(c.tokens, LAMBDA cls : cls \in ClassesToPreserve)
    IN  IF className # <<>> THEN ClassAttr(className) ELSE NoAttr

\* _cleanClasses without the recursion into the child elements
CleanClassesNoRecursion(t) ==
    [j \in DOMAIN t |->
        IF j = 1 THEN [t[j] EXCEPT !.class = CleanClass(@)] ELSE t[j]]

\* _cleanClasses(articleContent): the node and, recursively, every element
\* below it
CleanClasses(t) ==
    [j \in DOMAIN t |->
        IF t[j].alive THEN [t[j] EXCEPT !.class = CleanClass(@)] ELSE t[j]]

\* the serialized output: the elements still in the tree
RECURSIVE Depth(_, _)
Depth(t, i) == IF t[i].parent = 0 THEN 0 ELSE 1 + Depth(t, t[i].parent)

SerializeTree(t) ==
    LET alive == SelectSeq([j \in DOMAIN t |-> j], LAMBDA j : t[j].alive)
    IN  [k \in DOMAIN alive |->
            [tag |-> t[alive[k]].tag, depth |-> Depth(t, alive[k]),
             text |-> t[alive[k]].text, class |-> t[alive[k]].class,
             id |-> t[alive[k]].id, uri |-> t[alive[k]].uri]]

\* an element of the article content before it is placed in the tree
PostElement(tag, text, class, id, uri) ==
    [tag |-> tag, text |-> text, class |-> class, id |-> id, uri |-> uri]

PostElements ==
    { PostElement("DIV", "", NoAttr, "", NoUri),
      PostElement("DIV", "x", ClassAttr(<<"a">>), "", NoUri),
      PostElement("SECTION", " ", ClassAttr(<<"a", "page">>), "", NoUri),
      PostElement("DIV", "", ClassAttr(<<"page">>), "readability-page-1", NoUri),
      PostElement("A", "x", NoAttr, "", RelativeUri),
      PostElement("A", "x", ClassAttr(<<"a">>), "", JavascriptUri),
      PostElement("A", "", NoAttr, "", HashUri),
      PostElement("IMG", "", NoAttr, "", InvalidUri),
      PostElement("BR", "", ClassAttr(<<>>), "", NoUri) }

\* the elements that take no children
VoidTags == {"BR", "IMG"}

\* articleContent with n elements below it
PostTree(n, shapes, parents) ==
    [i \in 1..(n + 1) |->
        IF i = 1
        THEN [tag |-> "DIV", parent |-> 0, alive |-> TRUE, text |-> "",
              class |-> NoAttr, id |-> "", uri |-> NoUri]
        ELSE [tag |-> shapes[i].tag, parent |-> parents[i], alive |-> TRUE,
              text |-> shapes[i].text, class |-> shapes[i].class,
              id |-> shapes[i].id, uri |-> shapes[i].uri]]

InitPost ==
    /\ \E n \in 1..MaxElements :
         \E shapes \in [2..(n + 1) -> PostElements] :
           \E parents \in [2..(n + 1) -> 1..n] :
             /\ \A i \in 2..(n + 1) : parents[i] < i
             /\ \A i \in 2..(n + 1) :
                   /\ parents[i] > 1 => shapes[parents[i]].tag \notin VoidTags
                   \* document order: the parent is on the path from the
                   \* element before to the root
                   /\ i > 2 =>
                        \/ parents[i] = i - 1
                        \/ Inside(PostTree(n, shapes, parents), i - 1, parents[i])
             /\ article = PostTree(n, shapes, parents)
    /\ baseURI \in BaseURIs
    /\ keepClasses \in BOOLEAN
    /\ runs = 0
    /\ afterFirst = <<>>
    /\ pc = "fixRelativeUris"
    /\ OutsidePostIdle

\* this._fixRelativeUris(articleContent)
FixRelativeUrisStep ==
    /\ pc = "fixRelativeUris"
    /\ article' = FixRelativeUris(article, baseURI)
    /\ pc' = "simplifyNestedElements"
    /\ UNCHANGED <<outsidePostVars, baseURI, keepClasses, runs, afterFirst>>

\* this._simplifyNestedElements(articleContent)
SimplifyNestedElementsStep ==
    /\ pc = "simplifyNestedElements"
    /\ article' = SimplifyNestedElements(article)
    /\ pc' = "cleanClasses"
    /\ UNCHANGED <<outsidePostVars, baseURI, keepClasses, runs, afterFirst>>

\* if (!this._keepClasses) this._cleanClasses(articleContent), and the
\* return of _postProcessContent
CleanClassesStep ==
    /\ pc = "cleanClasses"
    /\ article' = IF ~keepClasses THEN CleanClasses(article) ELSE article
    /\ runs' = runs + 1
    /\ afterFirst' = IF runs = 0 THEN article' ELSE afterFirst
    /\ pc' = "postProcessed"
    /\ UNCHANGED <<outsidePostVars, baseURI, keepClasses>>

\* _postProcessContent is called again on the element it returned
PostProcessAgain ==
    /\ pc = "postProcessed"
    /\ runs < MaxPostRuns
    /\ pc' = "fixRelativeUris"
    /\ UNCHANGED <<outsidePostVars, postVars>>

NextPost ==
    \/ FixRelativeUrisStep
    \/ SimplifyNestedElementsStep
    \/ CleanClassesStep
    \/ PostProcessAgain

SpecPost == InitPost /\ [][NextPost]_vars

----------------------------------------------------------------------------
(* _replaceNodeTags and _setNodeTag on the children of one parent.  An     *)
(* element has an id, its tag, its attributes in order, its child nodes in *)
(* order and its readability annotation; the element createElement makes   *)
(* in place of element id is known as -id.                                 *)

Attr(name, value) == [name |-> name, value |-> value]

\* node.ownerDocument.createElement(tag)
CreateElement(tag, id) ==
    [id |-> id, tag |-> tag, attributes |-> <<>>, childNodes |-> <<>>,
     readability |-> NoScore]

\* while (node.firstChild) replacement.appendChild(node.firstChild)
RECURSIVE MoveChildNodes(_, _)
MoveChildNodes(n, replacement) ==
    IF n.childNodes = <<>> THEN replacement
    ELSE MoveChildNodes([n EXCEPT !.childNodes = Tail(@)],
             [replacement EXCEPT !.childNodes = Append(@, Head(n.childNodes))])

\* the readability annotation is never carried over
CopyReadabilityNever(n, replacement) == replacement

\* if (node.readability) replacement.readability = node.readability
CopyReadability(n, replacement) ==
    IF n.readability.has
    THEN [replacement EXCEPT !.readability = n.readability]
    ELSE replacement

\* replacement.setAttributeNode(attr): in place of the attribute of that
\* name, or after the attributes the element has
SetAttributeNode(e, attr) ==
    IF \E i \in DOMAIN e.attributes : e.attributes[i].name = attr.name
    THEN [e EXCEPT !.attributes =
             [i \in DOMAIN @ |-> IF @[i].name = attr.name THEN attr ELSE @[i]]]
    ELSE [e EXCEPT !.attributes = Append(@, attr)]

\* for (var i = 0; i < node.attributes.length; i++)
\*   replacement.setAttributeNode(node.attributes[i].cloneNode())
RECURSIVE CopyAttributes(_, _, _)
CopyAttributes(n, replacement, i) ==
    IF i > Len(n.attributes) THEN replacement
    ELSE CopyAttributes(n, SetAttributeNode(replacement, n.attributes[i]), i + 1)

\* _setNodeTag(node, tag) on the child at position i: under JSDOMParser the
\* names are changed in place; otherwise a new element takes the children,
\* the place in the parent, the annotation and the attributes
SetNodeTagInDom(d, i, tag, inPlace) ==
    IF inPlace THEN [d EXCEPT ![i].tag = tag]
    ELSE [d EXCEPT ![i] =
             CopyAttributes(d[i],
                 CopyReadability(d[i],
                     MoveChildNodes(d[i], CreateElement(tag, -d[i].id))), 1)]

\* the ids of the children with the tag, in document order
IdsWithTag(d, tag) ==
    LET matching == SelectSeq(d, LAMBDA e : e.tag = tag)
    IN  [k \in DOMAIN matching |-> matching[k].id]

\* the nodes a list holds now: a live list is the query run again, a
\* static list is what _getAllNodesWithTag collected
ListItems(d, list) == IF list.live THEN IdsWithTag(d, list.tag) ELSE list.items

\* where the node is among the children
PositionOf(d, id) == CHOOSE i \in DOMAIN d : d[i].id = id

\* the guard that is never taken
IsTrappedNever(list, jsdomParser) == FALSE

\* this._docJSDOMParser && nodeList._isLiveNodeList
IsTrapped(list, jsdomParser) == jsdomParser /\ list.isLiveNodeList

RetagElements ==
    [id : {0}, tag : {"FONT"},
     attributes : {<<>>, <<Attr("face", "Arial"), Attr("size", "")>>},
     childNodes : {<<>>, <<"Lorem", "BR">>},
     readability : {NoScore}]
    \cup [id : {0}, tag : {"H1"}, attributes : {<<Attr("class", "title")>>},
          childNodes : {<<"Lorem">>},
          readability : {NoScore, Scored(0)}]
    \cup [id : {0}, tag : {"P"}, attributes : {<<>>},
          childNodes : {<<"BR", "ipsum">>}, readability : {Scored(500)}]

RetagIds(elements) ==
    [i \in DOMAIN elements |-> [elements[i] EXCEPT !.id = i]]

InitRetag ==
    /\ \E n \in 1..MaxRetagNodes :
         \E elements \in [1..n -> RetagElements] : dom = RetagIds(elements)
    /\ domBefore = dom
    /\ docJSDOMParser \in BOOLEAN
    /\ newTagName \in {"SPAN", "DIV"}
    \* JSDOMParser marks the live lists it returns; no other list is marked
    /\ \E tag \in {"FONT", "H1"}, live \in BOOLEAN :
         nodeList = [tag |-> tag, live |-> live,
                     isLiveNodeList |-> live /\ docJSDOMParser,
                     items |-> IdsWithTag(dom, tag)]
    /\ listIndex = 1
    /\ thrown = ""
    /\ pc = "replaceNodeTags"
    /\ OutsideRetagIdle

\* if (this._docJSDOMParser && nodeList._isLiveNodeList) throw new Error(...)
ReplaceNodeTagsEnter ==
    /\ pc = "replaceNodeTags"
    /\ IF IsTrapped(nodeList, docJSDOMParser)
       THEN /\ thrown' = "Do not pass live node lists to _replaceNodeTags"
            /\ pc' = "thrown"
       ELSE /\ pc' = "forOf"
            /\ UNCHANGED thrown
    /\ UNCHANGED <<outsideRetagVars, dom, docJSDOMParser, nodeList, listIndex,
                   newTagName, domBefore>>

\* for (const node of nodeList) this._setNodeTag(node, newTagName)
SetNodeTagStep ==
    /\ pc = "forOf"
    /\ listIndex <= Len(ListItems(dom, nodeList))
    /\ dom' = SetNodeTagInDom(dom, PositionOf(dom, ListItems(dom, nodeList)[listIndex]),
                              newTagName, docJSDOMParser)
    /\ listIndex' = listIndex + 1
    /\ UNCHANGED <<outsideRetagVars, pc, docJSDOMParser, nodeList, newTagName,
                   thrown, domBefore>>

\* the list is exhausted
ReplaceNodeTagsReturn ==
    /\ pc = "forOf"
    /\ listIndex > Len(ListItems(dom, nodeList))
    /\ pc' = "retagged"
    /\ UNCHANGED <<outsideRetagVars, retagVars>>

NextRetag == ReplaceNodeTagsEnter \/ SetNodeTagStep \/ ReplaceNodeTagsReturn

SpecRetag == InitRetag /\ [][NextRetag]_vars

----------------------------------------------------------------------------
(* _replaceBrs(elem) on the child nodes of one element.  A node is a text  *)
(* node with content ("text"), a whitespace-only text node ("space"), a    *)
(* <br>, an inline <span>, a block <div>, or a <p> the routine has made,   *)
(* which holds the nodes moved into it.  The <p> made in place of <br> id  *)
(* is known as -id.                                                        *)

BrNode(id, kind) == [id |-> id, kind |-> kind, childNodes |-> <<>>]

\* _isPhrasingContent(node): a text node or an element of PHRASING_ELEMS
IsPhrasingContent(n) == n.kind \in {"text", "space", "BR", "SPAN", "IMG"}

\* _isWhitespace(node): a whitespace-only node
IsWhitespace(n) == n.kind = "space"

\* _nextNode(node) from position j on: whitespace-only text nodes are
\* skipped; 0 stands for null
NextNode(list, j) ==
    IF \E n \in j..Len(list) : list[n].kind # "space"
    THEN CHOOSE n \in j..Len(list) :
             /\ list[n].kind # "space"
             /\ \A k \in j..(n - 1) : list[k].kind = "space"
    ELSE 0

\* while ((next = this._nextNode(next)) && next.tagName == "BR"):
\* next.remove(), going on from its next sibling
RECURSIVE RemoveBrs(_, _)
RemoveBrs(list, j) ==
    LET n == NextNode(list, j)
    IN  IF n # 0 /\ list[n].kind = "BR" THEN RemoveBrs(RemoveAt(list, n), n)
        ELSE list

\* the while (next) loop after the <p> at position i: it stops at a <br>
\* that another <br> follows and at non-phrasing content, and moves every
\* other node into the <p>
RECURSIVE AbsorbFrom(_, _)
AbsorbFrom(list, i) ==
    IF i + 1 > Len(list) THEN list
    ELSE LET next == list[i + 1]
             nextElem == NextNode(list, i + 2)
         IN  IF next.kind = "BR" /\ nextElem # 0 /\ list[nextElem].kind = "BR"
             THEN list
             ELSE IF ~IsPhrasingContent(next) THEN list
             ELSE AbsorbFrom([RemoveAt(list, i + 1) EXCEPT
                                 ![i].childNodes = Append(@, next)], i)

\* while (p.lastChild && this._isWhitespace(p.lastChild)) p.lastChild.remove()
RECURSIVE TrimTrailingWhitespace(_)
TrimTrailingWhitespace(nodes) ==
    IF nodes # <<>> /\ IsWhitespace(nodes[Len(nodes)])
    THEN TrimTrailingWhitespace(SubSeq(nodes, 1, Len(nodes) - 1))
    ELSE nodes

\* the callback of _replaceBrs for the <br> at position i of its parent's
\* child nodes
ReplaceBrAt(list, i) ==
    LET removed == RemoveBrs(list, i + 1)
        p == [id |-> -list[i].id, kind |-> "P", childNodes |-> <<>>]
        absorbed == AbsorbFrom([removed EXCEPT ![i] = p], i)
    IN  IF Len(removed) = Len(list) THEN list
        ELSE [absorbed EXCEPT ![i].childNodes = TrimTrailingWhitespace(@)]

\* the callback for the <br> known as id, wherever it is by now: among the
\* child nodes of elem, inside a <p> made earlier, or out of the document
ReplaceBr(e, id) ==
    IF \E i \in DOMAIN e.childNodes : e.childNodes[i].id = id
    THEN LET i == CHOOSE i \in DOMAIN e.childNodes : e.childNodes[i].id = id
             replaced == ReplaceBrAt(e.childNodes, i)
         IN  [tagName |-> IF replaced # e.childNodes /\ e.tagName = "P"
                          THEN "DIV" ELSE e.tagName,
              childNodes |-> replaced]
    ELSE IF \E q \in DOMAIN e.childNodes :
               \E i \in DOMAIN e.childNodes[q].childNodes :
                   e.childNodes[q].childNodes[i].id = id
    THEN LET q == CHOOSE q \in DOMAIN e.childNodes :
                     \E i \in DOMAIN e.childNodes[q].childNodes :
                         e.childNodes[q].childNodes[i].id = id
             inner == e.childNodes[q].childNodes
             i == CHOOSE i \in DOMAIN inner : inner[i].id = id
             replaced == ReplaceBrAt(inner, i)
         IN  [e EXCEPT !.childNodes[q].childNodes = replaced,
                       !.childNodes[q].kind =
                           IF replaced # inner THEN "DIV" ELSE @]
    ELSE e

\* this._getAllNodesWithTag(elem, ["br"])
AllBrs(e) ==
    LET brElements == SelectSeq(e.childNodes, LAMBDA n : n.kind = "BR")
    IN  [k \in DOMAIN brElements |-> brElements[k].id]

BrKinds == {"text", "space", "BR", "SPAN", "DIV"}

\* <div>Lorem<br/>ipsum<br/> <br/><br/>dolor</div>
BrExample ==
    <<BrNode(1, "text"), BrNode(2, "BR"), BrNode(3, "text"), BrNode(4, "BR"),
      BrNode(5, "space"), BrNode(6, "BR"), BrNode(7, "BR"), BrNode(8, "text")>>

InitBrs ==
    /\ \E tagName \in {"DIV", "P"} :
         \/ \E n \in 1..MaxBrSiblings :
              \E kinds \in [1..n -> BrKinds] :
                elem = [tagName |-> tagName,
                        childNodes |-> [i \in 1..n |-> BrNode(i, kinds[i])]]
         \/ elem = [tagName |-> tagName, childNodes |-> BrExample]
    /\ elemBefore = elem
    /\ brList = AllBrs(elem)
    /\ pc = "replaceBrs"
    /\ OutsideBrsIdle

\* one call of the _forEachNode callback
ReplaceBrStep ==
    /\ pc = "replaceBrs"
    /\ brList # <<>>
    /\ elem' = ReplaceBr(elem, Head(brList))
    /\ brList' = Tail(brList)
    /\ UNCHANGED <<outsideBrsVars, pc, elemBefore>>

\* every <br> of the list has been visited
ReplaceBrsReturn ==
    /\ pc = "replaceBrs"
    /\ brList = <<>>
    /\ pc' = "brsReplaced"
    /\ UNCHANGED <<outsideBrsVars, brsVars>>

NextBrs == ReplaceBrStep \/ ReplaceBrsReturn

SpecBrs == InitBrs /\ [][NextBrs]_vars

----------------------------------------------------------------------------
(* Metadata: _getJSONLD, the <meta> pass of _getArticleMetadata and the    *)
(* priority chains.  A node of the document has a tag (kind); a script has *)
(* a type and its text, a <meta> has name, property and content, a heading *)
(* has the words of its text.  Strings are opaque, so every string         *)
(* operation is the table of what it does to the strings that occur.       *)

DocNode(id, kind, type, name, property, content) ==
    [id |-> id, kind |-> kind, childNodes |-> <<>>, type |-> type,
     name |-> name, property |-> property, content |-> content,
     words |-> <<>>]

Heading(id, tag, words) ==
    [DocNode(id, tag, "", "", "", "") EXCEPT !.words = words]

\* what JSON.parse and the property extraction make of a script's text: a
\* schema.org article with a name and an author, with one of them, or with
\* neither; text that does not parse throws and yields nothing
NoJsonLd == [title |-> "", byline |-> ""]

ParsedJsonLd(text) ==
    CASE text = "{name, author}" -> [title |-> "Linked", byline |-> "Alice"]
      [] text = "{name}" -> [title |-> "Linked", byline |-> ""]
      [] text = "{author}" -> [title |-> "", byline |-> "Alice"]
      [] OTHER -> NoJsonLd

\* this._getAllNodesWithTag(doc, ["script"]) filtered for the JSON-LD type
LdJsonScripts(d) ==
    SelectSeq(d, LAMBDA n : n.kind = "SCRIPT" /\ n.type = "application/ld+json")

\* _getJSONLD(doc): the metadata of the first JSON-LD script that yields any
GetJSONLD(d) ==
    LET usable == SelectSeq(LdJsonScripts(d),
                            LAMBDA n : ParsedJsonLd(n.content) # NoJsonLd)
    IN  IF usable = <<>> THEN NoJsonLd ELSE ParsedJsonLd(usable[1].content)

\* elementProperty.match(propertyPattern): matches[0] lower-cased and with
\* the whitespace removed, "" when the pattern does not match
PropertyKey(property) ==
    CASE property = "og:title" -> "og:title"
      [] property = "og:title twitter:title" -> "og:title"
      [] property = "dcterm:title" -> "dcterm:title"
      [] property = "DCTERM:Creator" -> "dcterm:creator"
      [] property = "article:author" -> "article:author"
      [] property = "weibo:article:title" -> "article:title"
      [] OTHER -> ""

\* namePattern.test(elementName), then the name lower-cased, without
\* whitespace and with ":" for every "."; "" when the pattern does not match
NameKey(name) ==
    CASE name = "DC.Title" -> "dc:title"
      [] name = "dc.creator" -> "dc:creator"
      [] name = "weibo:article:title" -> "weibo:article:title"
      [] name = "weibo:webpage:title" -> "weibo:webpage:title"
      [] name = "title" -> "title"
      [] name = "twitter:title" -> "twitter:title"
      [] name = "parsely-title" -> "parsely-title"
      [] name = "author" -> "author"
      [] name = "parsely-author" -> "parsely-author"
      [] OTHER -> ""

\* the keys of the values object
MetaKeys ==
    {"dc:title", "dcterm:title", "og:title", "weibo:article:title",
     "weibo:webpage:title", "title", "twitter:title", "parsely-title",
     "dc:creator", "dcterm:creator", "author", "parsely-author",
     "article:author", "article:title"}

\* content.trim()
Trim(content) ==
    CASE content = " " -> ""
      [] content = " Plain " -> "Plain"
      [] OTHER -> content

\* the callback of the <meta> loop
ProcessMeta(values, e) ==
    IF e.content = "" THEN values
    ELSE IF e.property # "" /\ PropertyKey(e.property) # ""
         THEN [values EXCEPT ![PropertyKey(e.property)] = Trim(e.content)]
    ELSE IF e.name # "" /\ NameKey(e.name) # ""
         THEN [values EXCEPT ![NameKey(e.name)] = Trim(e.content)]
    ELSE values

\* the values object after the loop over the <meta> elements
RECURSIVE MetaValuesFrom(_, _)
MetaValuesFrom(values, metaElements) ==
    IF metaElements = <<>> THEN values
    ELSE MetaValuesFrom(ProcessMeta(values, Head(metaElements)), Tail(metaElements))

MetaValues(d) ==
    MetaValuesFrom([k \in MetaKeys |-> ""], SelectSeq(d, LAMBDA n : n.kind = "META"))

\* this._isUrl(str)
IsUrl(str) == str = "https://fb.com/carol"

\* articleAuthor: article:author when it is a string that is not a URL
ArticleAuthor(values) ==
    IF ~IsUrl(values["article:author"]) THEN values["article:author"] ELSE ""

\* the title chain with og:title moved to the front
TitleOfOpenGraphFirst(jsonld, values) ==
    IF values["og:title"] # "" THEN values["og:title"]
    ELSE IF jsonld.title # "" THEN jsonld.title
    ELSE IF values["dc:title"] # "" THEN values["dc:title"]
    ELSE IF values["dcterm:title"] # "" THEN values["dcterm:title"]
    ELSE IF values["weibo:article:title"] # "" THEN values["weibo:article:title"]
    ELSE IF values["weibo:webpage:title"] # "" THEN values["weibo:webpage:title"]
    ELSE IF values["title"] # "" THEN values["title"]
    ELSE IF values["twitter:title"] # "" THEN values["twitter:title"]
    ELSE values["parsely-title"]

\* metadata.title = jsonld.title || values["dc:title"] || ...
TitleOf(jsonld, values) ==
    IF jsonld.title # "" THEN jsonld.title
    ELSE IF values["dc:title"] # "" THEN values["dc:title"]
    ELSE IF values["dcterm:title"] # "" THEN values["dcterm:title"]
    ELSE IF values["og:title"] # "" THEN values["og:title"]
    ELSE IF values["weibo:article:title"] # "" THEN values["weibo:article:title"]
    ELSE IF values["weibo:webpage:title"] # "" THEN values["weibo:webpage:title"]
    ELSE IF values["title"] # "" THEN values["title"]
    ELSE IF values["twitter:title"] # "" THEN values["twitter:title"]
    ELSE values["parsely-title"]

\* the byline chain taking article:author as it comes
BylineOfAnyArticleAuthor(jsonld, values) ==
    IF jsonld.byline # "" THEN jsonld.byline
    ELSE IF values["dc:creator"] # "" THEN values["dc:creator"]
    ELSE IF values["dcterm:creator"] # "" THEN values["dcterm:creator"]
    ELSE IF values["author"] # "" THEN values["author"]
    ELSE IF values["parsely-author"] # "" THEN values["parsely-author"]
    ELSE values["article:author"]

\* metadata.byline = jsonld.byline || values["dc:creator"] || ... ||
\* articleAuthor
BylineOf(jsonld, values) ==
    IF jsonld.byline # "" THEN jsonld.byline
    ELSE IF values["dc:creator"] # "" THEN values["dc:creator"]
    ELSE IF values["dcterm:creator"] # "" THEN values["dcterm:creator"]
    ELSE IF values["author"] # "" THEN values["author"]
    ELSE IF values["parsely-author"] # "" THEN values["parsely-author"]
    ELSE ArticleAuthor(values)

\* this._unescapeHtmlEntities(str)
UnescapeHtmlEntities(str) ==
    CASE str = "Dublin &amp; Core" -> "Dublin & Core"
      [] OTHER -> str

NoMetadata == [title |-> "", byline |-> ""]

\* _getArticleMetadata(jsonld)
GetArticleMetadata(jsonld, d) ==
    [title |-> UnescapeHtmlEntities(TitleOf(jsonld, MetaValues(d))),
     byline |-> UnescapeHtmlEntities(BylineOf(jsonld, MetaValues(d)))]

----------------------------------------------------------------------------
(* _getArticleTitle.  doc.title is its words in order, one space between   *)
(* two words; a separator that stands alone is a word of its own.  A piece *)
(* of the title is kept with its words and with whether it begins with the *)
(* space that followed the place it was cut at.                            *)

TitleWords == {"Foo", "Example", "-", "/", "News:", "e-mail"}

\* the characters of titleSeparators, standing alone
IsSeparator(w) == w \in {"-", "/"}

\* the characters of /\s[\\\/>»]\s/
IsHierarchical(w) == w = "/"

\* the word holds a character of titleSeparators
HoldsSeparator(w) == w \in {"-", "/", "e-mail"}

\* what is left of the word after its first separator character
AfterSeparator(w) == IF w = "e-mail" THEN <<"mail">> ELSE <<>>

HoldsColon(w) == w = "News:"

WordLength(w) ==
    CASE w = "Foo" -> 3
      [] w = "Example" -> 7
      [] w = "News:" -> 5
      [] w = "e-mail" -> 6
      [] w = "mail" -> 4
      [] OTHER -> 1

Piece(lead, words) == [lead |-> lead, words |-> words]

\* wordCount(str): str.split(/\s+/).length; the empty string splits into
\* one empty word and a leading space adds an empty word
WordCount(piece) ==
    (IF piece.words = <<>> THEN 1 ELSE Len(piece.words))
        + (IF piece.lead THEN 1 ELSE 0)

\* curTitle.length
RECURSIVE TitleLength(_)
TitleLength(words) ==
    IF words = <<>> THEN 0
    ELSE IF Len(words) = 1 THEN WordLength(words[1])
    ELSE WordLength(Head(words)) + 1 + TitleLength(Tail(words))

\* the matches of \s[titleSeparators]\s from left to right: a separator
\* between two words, unless the match before it took its leading space
RECURSIVE IsMatch(_, _)
IsMatch(words, i) ==
    /\ 1 < i /\ i < Len(words)
    /\ IsSeparator(words[i])
    /\ ~IsMatch(words, i - 1)

SeparatorMatches(words) == {i \in DOMAIN words : IsMatch(words, i)}

\* origTitle.substring(0, allSeparators.pop().index)
BeforeLastSeparator(words) ==
    LET last == CHOOSE i \in SeparatorMatches(words) :
                    \A j \in SeparatorMatches(words) : j <= i
    IN  Piece(FALSE, SubSeq(words, 1, last - 1))

\* origTitle.replace(/^[^titleSeparators]*[titleSeparators]/gi, "")
AfterFirstSeparator(words) ==
    IF \E i \in DOMAIN words : HoldsSeparator(words[i])
    THEN LET f == CHOOSE i \in DOMAIN words :
                      /\ HoldsSeparator(words[i])
                      /\ \A j \in 1..(i - 1) : ~HoldsSeparator(words[j])
         IN  IF AfterSeparator(words[f]) # <<>>
             THEN Piece(FALSE, AfterSeparator(words[f])
                                 \o SubSeq(words, f + 1, Len(words)))
             ELSE Piece(f < Len(words), SubSeq(words, f + 1, Len(words)))
    ELSE Piece(FALSE, words)

\* the separator branch
SeparatorBranch(words) ==
    IF WordCount(BeforeLastSeparator(words)) < 3
    THEN AfterFirstSeparator(words)
    ELSE BeforeLastSeparator(words)

\* origTitle.substring(i + 1) for a colon that ends word i
AfterColon(words, i) == Piece(i < Len(words), SubSeq(words, i + 1, Len(words)))

\* the colon branch when no heading repeats the title
ColonBranch(words) ==
    LET colons == {i \in DOMAIN words : HoldsColon(words[i])}
        lastColon == CHOOSE i \in colons : \A j \in colons : j <= i
        firstColon == CHOOSE i \in colons : \A j \in colons : i <= j
    IN  IF WordCount(AfterColon(words, lastColon)) < 3
        THEN AfterColon(words, firstColon)
        ELSE IF firstColon > 5 THEN Piece(FALSE, words)
        ELSE AfterColon(words, lastColon)

\* doc.getElementsByTagName("h1")
HOnes(headings) == SelectSeq(headings, LAMBDA h : h.tag = "H1")

\* the title before the final validation
CurTitle(words, headings) ==
    IF SeparatorMatches(words) # {} THEN SeparatorBranch(words)
    ELSE IF \E i \in 1..(Len(words) - 1) : HoldsColon(words[i])
         THEN IF \E k \in DOMAIN headings : headings[k].words = words
              THEN Piece(FALSE, words)
              ELSE ColonBranch(words)
    ELSE IF (TitleLength(words) > 150 \/ TitleLength(words) < 15)
            /\ Len(HOnes(headings)) = 1
         THEN Piece(FALSE, HOnes(headings)[1].words)
    ELSE Piece(FALSE, words)

\* titleHadHierarchicalSeparators: set in the separator branch only
TitleHadHierarchicalSeparators(words) ==
    /\ SeparatorMatches(words) # {}
    /\ \E i \in 2..(Len(words) - 1) : IsHierarchical(words[i])

\* wordCount(origTitle.replace(/\s[titleSeparators]\s/g, "")): every match
\* goes with its two spaces, so the words around it become one
StrippedWordCount(words) ==
    IF words = <<>> THEN 1
    ELSE Len(words) - 2 * Cardinality(SeparatorMatches(words))

\* the final validation that never reverts
FinalValidationNever(cur, words) == cur

\* the final validation: a title of at most four words goes back to the
\* original unless a hierarchical separator took exactly one word away
FinalValidation(cur, words) ==
    LET curTitleWordCount == WordCount(Piece(FALSE, cur))
    IN  IF /\ curTitleWordCount <= 4
           /\ \/ ~TitleHadHierarchicalSeparators(words)
              \/ curTitleWordCount # StrippedWordCount(words) - 1
        THEN words
        ELSE cur

\* _getArticleTitle(): curTitle.trim() drops the leading space
GetArticleTitle(words, headings) ==
    FinalValidation(CurTitle(words, headings).words, words)

----------------------------------------------------------------------------
(* parse() up to the end of _prepDocument, one action per step.  The       *)
(* document is the sequence of its elements in document order.             *)

\* the steps of parse() in the order it takes them
ParseOrder ==
    <<"parse", "unwrapNoscriptImages", "getJSONLD", "getArticleMetadata",
      "removeScripts", "prepDocument", "parsePrepared">>

\* the order with the scripts removed before the metadata is resolved
StepAfterScriptsFirst(step) ==
    LET order == <<"parse", "unwrapNoscriptImages", "removeScripts",
                   "getJSONLD", "getArticleMetadata", "prepDocument",
                   "parsePrepared">>
        i == CHOOSE i \in DOMAIN order : order[i] = step
    IN  order[i + 1]

\* the step parse() takes after this one
StepAfter(step) ==
    LET i == CHOOSE i \in DOMAIN ParseOrder : ParseOrder[i] = step
    IN  ParseOrder[i + 1]

\* this._doc.getElementsByTagName("*").length
ElementCount(d) == Len(d)

\* the size check that 0 does not switch off
TooManyElementsNoDisable(d, max) == ElementCount(d) > max

\* the size check at the head of parse()
TooManyElements(d, max) == max > 0 /\ ElementCount(d) > max

\* _unwrapNoscriptImages(doc): the placeholder <img> right before a
\* <noscript> that holds one image becomes that image
UnwrapNoscriptImages(d) ==
    [i \in DOMAIN d |->
        IF /\ d[i].kind = "IMG"
           /\ i < Len(d)
           /\ d[i + 1].kind = "NOSCRIPT"
           /\ d[i + 1].content # ""
        THEN [d[i] EXCEPT !.content = d[i + 1].content]
        ELSE d[i]]

\* _removeScripts(doc)
RemoveScripts(d) == SelectSeq(d, LAMBDA n : n.kind \notin {"SCRIPT", "NOSCRIPT"})

\* _replaceBrs(elem): the callback for every <br> found at the start
RECURSIVE ReplaceBrsFrom(_, _)
ReplaceBrsFrom(e, brs) ==
    IF brs = <<>> THEN e
    ELSE ReplaceBrsFrom(ReplaceBr(e, Head(brs)), Tail(brs))

ReplaceBrs(e) == ReplaceBrsFrom(e, AllBrs(e))

\* _prepDocument(): the <style> elements go, runs of <br> become
\* paragraphs, every <font> becomes a <span>; a <p> made for a run holds
\* phrasing content only and so no <font>
PrepDocument(d) ==
    LET styled == SelectSeq(d, LAMBDA n : n.kind # "STYLE")
        body == ReplaceBrs([tagName |-> "BODY", childNodes |-> styled])
    IN  [i \in DOMAIN body.childNodes |->
            IF body.childNodes[i].kind = "FONT"
            THEN [body.childNodes[i] EXCEPT !.kind = "SPAN"]
            ELSE body.childNodes[i]]

\* this._getAllNodesWithTag(doc, ["h1", "h2"])
Headings(d) ==
    LET found == SelectSeq(d, LAMBDA n : n.kind \in {"H1", "H2"})
    IN  [k \in DOMAIN found |-> [tag |-> found[k].kind, words |-> found[k].words]]

\* this._articleTitle: the title of the metadata, one opaque word here, and
\* without one the title _getArticleTitle() works out
ArticleTitle(meta, words, d) ==
    IF meta.title # "" THEN <<meta.title>>
    ELSE GetArticleTitle(words, Headings(d))

\* parse() is entered: the size check throws or lets the document through
ParseEnter ==
    /\ pc = "parse"
    /\ IF TooManyElements(parseDoc, maxElemsToParse)
       THEN /\ pc' = "parseThrown"
            /\ parseError' = "InputTooLarge"
       ELSE /\ pc' = StepAfter(pc)
            /\ parseError' = ""
    /\ UNCHANGED <<outsideParseVars, parseDoc, input, docTitle,
                   maxElemsToParse, disableJSONLD, jsonLd, metadata,
                   articleTitle, steps>>

UnwrapNoscriptImagesStep ==
    /\ pc = "unwrapNoscriptImages"
    /\ parseDoc' = UnwrapNoscriptImages(parseDoc)
    /\ steps' = Append(steps, pc)
    /\ pc' = StepAfter(pc)
    /\ UNCHANGED <<outsideParseVars, input, docTitle, maxElemsToParse,
                   disableJSONLD, jsonLd, metadata, articleTitle, parseError>>

\* var jsonLd = this._disableJSONLD ? {} : this._getJSONLD(this._doc)
GetJSONLDStep ==
    /\ pc = "getJSONLD"
    /\ jsonLd' = IF disableJSONLD THEN NoJsonLd ELSE GetJSONLD(parseDoc)
    /\ steps' = Append(steps, pc)
    /\ pc' = StepAfter(pc)
    /\ UNCHANGED <<outsideParseVars, parseDoc, input, docTitle,
                   maxElemsToParse, disableJSONLD, metadata, articleTitle,
                   parseError>>

\* var metadata = this._getArticleMetadata(jsonLd);
\* this._articleTitle = metadata.title
GetArticleMetadataStep ==
    /\ pc = "getArticleMetadata"
    /\ metadata' = GetArticleMetadata(jsonLd, parseDoc)
    /\ articleTitle' = ArticleTitle(metadata', docTitle, parseDoc)
    /\ steps' = Append(steps, pc)
    /\ pc' = StepAfter(pc)
    /\ UNCHANGED <<outsideParseVars, parseDoc, input, docTitle,
                   maxElemsToParse, disableJSONLD, jsonLd, parseError>>

RemoveScriptsStep ==
    /\ pc = "removeScripts"
    /\ parseDoc' = RemoveScripts(parseDoc)
    /\ steps' = Append(steps, pc)
    /\ pc' = StepAfter(pc)
    /\ UNCHANGED <<outsideParseVars, input, docTitle, maxElemsToParse,
                   disableJSONLD, jsonLd, metadata, articleTitle, parseError>>

PrepDocumentStep ==
    /\ pc = "prepDocument"
    /\ parseDoc' = PrepDocument(parseDoc)
    /\ steps' = Append(steps, pc)
    /\ pc' = StepAfter(pc)
    /\ UNCHANGED <<outsideParseVars, input, docTitle, maxElemsToParse,
                   disableJSONLD, jsonLd, metadata, articleTitle, parseError>>

NextParse ==
    \/ ParseEnter
    \/ UnwrapNoscriptImagesStep
    \/ GetJSONLDStep
    \/ GetArticleMetadataStep
    \/ RemoveScriptsStep
    \/ PrepDocumentStep

\* a fresh instance: nothing resolved yet
ParseStart ==
    /\ input = parseDoc
    /\ jsonLd = NoJsonLd
    /\ metadata = NoMetadata
    /\ articleTitle = <<>>
    /\ steps = <<>>
    /\ parseError = ""
    /\ pc = "parse"
    /\ OutsideParseIdle

\* the elements a document of the parse() runs is made of
ParseElement(id, shape) ==
    CASE shape = "ld" -> DocNode(id, "SCRIPT", "application/ld+json", "", "", "{name, author}")
      [] shape = "ldBroken" -> DocNode(id, "SCRIPT", "application/ld+json", "", "", "not json")
      [] shape = "js" -> DocNode(id, "SCRIPT", "", "", "", "run()")
      [] shape = "noscript" -> DocNode(id, "NOSCRIPT", "", "", "", "hi.png")
      [] shape = "img" -> DocNode(id, "IMG", "", "", "", "lo.png")
      [] shape = "meta" -> DocNode(id, "META", "", "", "og:title", "Graph")
      [] shape = "style" -> DocNode(id, "STYLE", "", "", "", "p {}")
      [] shape = "br" -> DocNode(id, "BR", "", "", "", "")
      [] OTHER -> DocNode(id, "FONT", "", "", "", "")

ParseShapes ==
    {"ld", "ldBroken", "js", "noscript", "img", "meta", "style", "br", "font"}

InitParse ==
    /\ \E n \in 1..MaxParseElems :
         \E shapes \in [1..n -> ParseShapes] :
           parseDoc = [i \in 1..n |-> ParseElement(i, shapes[i])]
    /\ docTitle = <<"Foo", "-", "Example">>
    /\ maxElemsToParse \in {0, MaxParseElems - 1}
    /\ disableJSONLD \in BOOLEAN
    /\ ParseStart

SpecParse == InitParse /\ [][NextParse]_vars

----------------------------------------------------------------------------
(* parse() on documents that differ in their metadata sources.             *)

\* a <meta> for every title source, from the first of the chain to the last
TitleMetas ==
    <<[name |-> "DC.Title", property |-> "", content |-> "Dublin &amp; Core"],
      [name |-> "", property |-> "dcterm:title", content |-> "Terms"],
      [name |-> "", property |-> "og:title twitter:title", content |-> "Graph"],
      [name |-> "weibo:article:title", property |-> "", content |-> "Weibo article"],
      [name |-> "weibo:webpage:title", property |-> "", content |-> "Weibo page"],
      [name |-> "title", property |-> "", content |-> " Plain "],
      [name |-> "twitter:title", property |-> "", content |-> "Tweet"],
      [name |-> "parsely-title", property |-> "", content |-> "Parsely"]>>

\* a <meta> for every author source; article:author comes as a name and as
\* a URL
AuthorMetas ==
    <<[name |-> "dc.creator", property |-> "", content |-> "Dora"],
      [name |-> "", property |-> "DCTERM:Creator", content |-> "Terry"],
      [name |-> "author", property |-> "", content |-> "Bob"],
      [name |-> "parsely-author", property |-> "", content |-> "Pat"],
      [name |-> "", property |-> "article:author", content |-> "Carol"],
      [name |-> "", property |-> "article:author", content |-> "https://fb.com/carol"]>>

\* <meta> elements that give no source: a name no pattern knows, a title
\* without content, a title of whitespace, an author of whitespace
OtherMetas ==
    <<[name |-> "viewport", property |-> "", content |-> "width=1"],
      [name |-> "", property |-> "og:title", content |-> ""],
      [name |-> "title", property |-> "", content |-> " "],
      [name |-> "author", property |-> "", content |-> " "]>>

\* the texts of a JSON-LD script
JsonLdTexts == {"{name, author}", "{name}", "{author}", "not json"}

\* the chosen <meta> elements, the last of the chain first, and then the
\* JSON-LD script, numbered in document order
RECURSIVE Numbered(_, _)
Numbered(nodes, i) ==
    IF i > Len(nodes) THEN <<>>
    ELSE <<[nodes[i] EXCEPT !.id = i]>> \o Numbered(nodes, i + 1)

MetaDocument(metas, chosen, other, text) ==
    LET picked == SelectSeq([k \in DOMAIN metas |-> Len(metas) + 1 - k],
                            LAMBDA k : k \in chosen)
        sources == [k \in DOMAIN picked |->
                      DocNode(0, "META", "", metas[picked[k]].name,
                              metas[picked[k]].property,
                              metas[picked[k]].content)]
        extra == IF other = 0 THEN <<>>
                 ELSE <<DocNode(0, "META", "", OtherMetas[other].name,
                                OtherMetas[other].property,
                                OtherMetas[other].content)>>
        script == IF text = "" THEN <<>>
                  ELSE <<DocNode(0, "SCRIPT", "application/ld+json", "", "", text)>>
    IN  Numbered(sources \o extra \o script, 1)

InitMeta ==
    /\ \E other \in 0..Len(OtherMetas) :
       \E text \in JsonLdTexts \cup {""} :
         \/ \E chosen \in SUBSET DOMAIN TitleMetas :
              parseDoc = MetaDocument(TitleMetas, chosen, other, text)
         \/ \E chosen \in SUBSET DOMAIN AuthorMetas :
              /\ Cardinality(chosen \cap {5, 6}) <= 1
              /\ parseDoc = MetaDocument(AuthorMetas, chosen, other, text)
    /\ docTitle = <<"Foo", "-", "Example">>
    /\ maxElemsToParse = 0
    /\ disableJSONLD \in BOOLEAN
    /\ ParseStart

SpecMeta == InitMeta /\ [][NextParse]_vars

----------------------------------------------------------------------------
(* parse() on documents that differ in their title and their headings.     *)

LongHeading == <<"Foo", "Example", "Foo", "Example", "Foo">>

\* the headings of the document: none, an <h1> of its own, two such, an
\* <h1> or an <h2> that repeats the title
HeadingShapes == {"none", "h1", "twoH1", "h1Title", "h2Title"}

TitleDocument(shape, words, withMeta) ==
    Numbered(
      (IF withMeta THEN <<DocNode(0, "META", "", "", "og:title", "Graph")>>
       ELSE <<>>)
      \o (CASE shape = "h1" -> <<Heading(0, "H1", LongHeading)>>
            [] shape = "twoH1" -> <<Heading(0, "H1", LongHeading),
                                    Heading(0, "H1", LongHeading)>>
            [] shape = "h1Title" -> <<Heading(0, "H1", words)>>
            [] shape = "h2Title" -> <<Heading(0, "H2", words)>>
            [] OTHER -> <<>>), 1)

InitTitle ==
    /\ \E n \in 0..MaxTitleWords :
         \E words \in [1..n -> TitleWords] :
           /\ docTitle = words
           /\ \E shape \in HeadingShapes, withMeta \in BOOLEAN :
                parseDoc = TitleDocument(shape, words, withMeta)
    /\ maxElemsToParse = 0
    /\ disableJSONLD = FALSE
    /\ ParseStart

SpecTitle == InitTitle /\ [][NextParse]_vars

----------------------------------------------------------------------------
(* The scoring loop of _grabArticle over elementsToScore.  The document is *)
(* a sequence of elements in document order, each naming its parent by     *)
(* position (0 for the root); an element carries the length of the text    *)
(* that is its own and the commas in it.  A contentScore propagated to an  *)
(* ancestor is kept in 3600ths, which every scoreDivider divides.          *)

DEFAULT_TAGS_TO_SCORE == {"SECTION", "H2", "H3", "H4", "H5", "H6", "P", "TD", "PRE"}

\* the elements the traversal pushed: those with a tag to score
ElementsToScore(t) ==
    LET all == [i \in DOMAIN t |-> i]
    IN  SelectSeq(all, LAMBDA i : t[i].tag \in DEFAULT_TAGS_TO_SCORE)

\* this._getInnerText(elementToScore): the text of the element and of
\* everything below it, as its length and the commas it holds
RECURSIVE InnerTextFrom(_, _, _)
InnerTextFrom(t, i, j) ==
    IF j > Len(t) THEN [length |-> 0, commas |-> 0]
    ELSE LET rest == InnerTextFrom(t, i, j + 1)
         IN  IF j = i \/ HasAncestor(t, j, i)
             THEN [length |-> t[j].text + rest.length,
                   commas |-> t[j].commas + rest.commas]
             ELSE rest

InnerText(t, i) == InnerTextFrom(t, i, 1)

\* innerText.split(this.REGEXPS.commas).length: one piece more than commas
CommaSplitLength(innerText) == innerText.commas + 1

\* the contentScore of one element to score
ContentScore(innerText) ==
    1 + CommaSplitLength(innerText)
      + (IF innerText.length \div 100 < 3 THEN innerText.length \div 100 ELSE 3)

\* _getNodeAncestors(node, maxDepth), the parent first; n is the local i
RECURSIVE NodeAncestorsFrom(_, _, _, _)
NodeAncestorsFrom(t, node, n, maxDepth) ==
    IF t[node].parent = 0 THEN <<>>
    ELSE <<t[node].parent>> \o
         (IF maxDepth # 0 /\ n + 1 = maxDepth THEN <<>>
          ELSE NodeAncestorsFrom(t, t[node].parent, n + 1, maxDepth))

GetNodeAncestors(t, node, maxDepth) == NodeAncestorsFrom(t, node, 0, maxDepth)

\* every ancestor takes the whole score
ScoreDividerFlat(level) == 1

\* scoreDivider for an ancestor at the level
ScoreDivider(level) ==
    IF level = 0 THEN 1 ELSE IF level = 1 THEN 2 ELSE level * 3

\* the _forEachNode over the ancestors: initialize on first touch, then add
\* contentScore / scoreDivider
RECURSIVE PropagateFrom(_, _, _, _, _)
PropagateFrom(t, ancestors, level, contentScore, fl) ==
    IF ancestors = <<>> THEN t
    ELSE LET a == Head(ancestors)
             seeded == IF t[a].readability.has THEN t[a].readability.contentScore
                       ELSE 36 * InitializeNode(t[a], fl)
             share == (3600 * contentScore) \div ScoreDivider(level)
         IN  PropagateFrom([t EXCEPT ![a].readability = Scored(seeded + share)],
                           Tail(ancestors), level + 1, contentScore, fl)

\* the element is passed over: less than 25 characters or no ancestor
SkipsScoring(t, i) ==
    \/ InnerText(t, i).length < 25
    \/ GetNodeAncestors(t, i, 5) = <<>>

\* the callback of the loop over elementsToScore
ScoreElement(t, i, fl) ==
    IF SkipsScoring(t, i) THEN t
    ELSE PropagateFrom(t, GetNodeAncestors(t, i, 5), 0,
                       ContentScore(InnerText(t, i)), fl)

\* one element of the documents scored: a container or a paragraph
ScoreElementRecord(tag, parent, cls, text, commas) ==
    [tag |-> tag, parent |-> parent, cls |-> cls, text |-> text,
     commas |-> commas, readability |-> NoScore]

\* the texts of a paragraph: too short, just long enough, with commas, long
ParagraphTexts ==
    {[text |-> 24, commas |-> 3], [text |-> 25, commas |-> 0],
     [text |-> 130, commas |-> 2], [text |-> 420, commas |-> 1]}

\* a chain of containers, a paragraph at its end and, with at > 0, a second
\* paragraph below the container at that position
ScoreDocument(tags, cls, last, at, other) ==
    [i \in 1..Len(tags) |-> ScoreElementRecord(tags[i], i - 1, cls[i], 0, 0)]
    \o <<ScoreElementRecord("P", Len(tags), "", last.text, last.commas)>>
    \o (IF at = 0 THEN <<>>
        ELSE <<ScoreElementRecord("P", at, "", other.text, other.commas)>>)

InitScore ==
    /\ \E d \in 1..MaxDepth :
       \E tags \in [1..d -> {"DIV", "SECTION"}] :
       \E marked \in {"", "sidebar", "article"} :
       \E last \in ParagraphTexts, at \in 0..d :
         scoreTree = ScoreDocument(tags,
                        [i \in 1..d |-> IF i = 1 \/ i = d THEN marked ELSE ""],
                        last, at, [text |-> 130, commas |-> 2])
    /\ elementsToScore = ElementsToScore(scoreTree)
    /\ scoreFlags \in {AllFlags, RemoveFlag(AllFlags, FLAG_WEIGHT_CLASSES)}
    /\ scoredElements = <<>>
    /\ pc = "score"
    /\ OutsideScoreIdle

\* one call of the callback
ScoreElementStep ==
    /\ pc = "score"
    /\ elementsToScore # <<>>
    /\ scoreTree' = ScoreElement(scoreTree, Head(elementsToScore), scoreFlags)
    /\ scoredElements' =
         IF SkipsScoring(scoreTree, Head(elementsToScore)) THEN scoredElements
         ELSE Append(scoredElements,
                     [node |-> Head(elementsToScore),
                      contentScore |->
                          ContentScore(InnerText(scoreTree, Head(elementsToScore)))])
    /\ elementsToScore' = Tail(elementsToScore)
    /\ UNCHANGED <<outsideScoreVars, pc, scoreFlags>>

\* every element to score has been visited
ScoreReturn ==
    /\ pc = "score"
    /\ elementsToScore = <<>>
    /\ pc' = "scored"
    /\ UNCHANGED <<outsideScoreVars, scoreVars>>

NextScore == ScoreElementStep \/ ScoreReturn

SpecScore == InitScore /\ [][NextScore]_vars

----------------------------------------------------------------------------
(* _prepArticle on the articleContent of one attempt.  The content is a    *)
(* sequence of elements, the first of them articleContent itself; an       *)
(* element names its parent by position, carries its class and id          *)
(* attribute, and node is its object identity (the element createElement   *)
(* makes in place of node n is -n).  Two fields are inputs: cue, a table   *)
(* has a caption, a <th> or the size of a data table, and bad, the content *)
(* heuristics of _cleanConditionally fail for the element.  removedBy      *)
(* names the step that took the element out.                               *)

\* this._getAllNodesWithTag(articleContent, tags), a static list
AllNodesWithTag(t, tags) ==
    {j \in DOMAIN t : t[j].alive /\ t[j].tag \in tags /\ Inside(t, j, 1)}

\* _removeNodes(nodeList, filterFn) for the nodes the filter accepts
RemoveNodes(t, nodes, by) ==
    [j \in DOMAIN t |->
        IF j \in nodes THEN [t[j] EXCEPT !.alive = FALSE, !.removedBy = by]
        ELSE IF \E i \in nodes : Inside(t, j, i) THEN [t[j] EXCEPT !.alive = FALSE]
        ELSE t[j]]

\* _markDataTables(articleContent): table._readabilityDataTable
MarkDataTables(t) ==
    [j \in DOMAIN t |->
        IF t[j].alive /\ t[j].tag = "TABLE" THEN [t[j] EXCEPT !.dataTable = t[j].cue]
        ELSE t[j]]

\* this._hasAncestorTag(node, tagName)
HasAncestorTag(t, i, tagName) ==
    \E a \in DOMAIN t : Inside(t, i, a) /\ t[a].tag = tagName

IsDataTable(n) == n.dataTable

\* this._hasAncestorTag(node, "table", -1, isDataTable)
HasDataTableAncestor(t, i) ==
    \E a \in DOMAIN t : Inside(t, i, a) /\ t[a].tag = "TABLE" /\ IsDataTable(t[a])

\* what _cleanConditionally never removes
IsProtected(t, i) ==
    \/ t[i].tag = "TABLE" /\ IsDataTable(t[i])
    \/ HasDataTableAncestor(t, i)
    \/ HasAncestorTag(t, i, "CODE")

\* the verdict of _cleanConditionally on an element it may remove
FailsHeuristics(t, i, fl) ==
    \/ ClassWeight(t[i].cls, t[i].id, fl) < 0
    \/ t[i].bad

\* the flag is not looked at
CleanConditionallyAlways(t, tag, fl) ==
    RemoveNodes(t, {i \in AllNodesWithTag(t, {tag}) :
                        ~IsProtected(t, i) /\ FailsHeuristics(t, i, fl)},
                "cleanConditionally")

\* _cleanConditionally(articleContent, tag)
CleanConditionallyOf(t, tag, fl) ==
    IF ~FlagIsActive(fl, FLAG_CLEAN_CONDITIONALLY) THEN t
    ELSE RemoveNodes(t, {i \in AllNodesWithTag(t, {tag}) :
                            ~IsProtected(t, i) /\ FailsHeuristics(t, i, fl)},
                     "cleanConditionally")

\* _cleanConditionally for the tags in turn
RECURSIVE CleanConditionallyEach(_, _, _)
CleanConditionallyEach(t, tags, fl) ==
    IF tags = <<>> THEN t
    ELSE CleanConditionallyEach(CleanConditionallyOf(t, Head(tags), fl), Tail(tags), fl)

\* _clean(articleContent, tag) for the tags; the documents hold no video
Clean(t, tags) == RemoveNodes(t, AllNodesWithTag(t, tags), "clean")

\* REGEXPS.shareElements on className + " " + id
ShareElements(cls, id) == cls = "share" \/ id = "share"

\* the share elements below the children of articleContent
CleanShareElements(t) ==
    RemoveNodes(t, {i \in DOMAIN t :
                       /\ t[i].alive
                       /\ \E c \in Children(t, 1) : Inside(t, i, c)
                       /\ ShareElements(t[i].cls, t[i].id)},
                "share")

\* every heading goes
CleanHeadersAll(t, fl) == RemoveNodes(t, AllNodesWithTag(t, {"H1", "H2"}), "cleanHeaders")

\* _cleanHeaders(articleContent)
CleanHeaders(t, fl) ==
    RemoveNodes(t, {i \in AllNodesWithTag(t, {"H1", "H2"}) :
                       ClassWeight(t[i].cls, t[i].id, fl) < 0},
                "cleanHeaders")

\* _setNodeTag on the element at position i
SetNodeTagAt(t, i, tag, inPlace) ==
    IF inPlace THEN [t EXCEPT ![i].tag = tag]
    ELSE [t EXCEPT ![i].tag = tag, ![i].node = -t[i].node]

\* the headings stay as they are
ReplaceH1Never(t, inPlace) == t

\* this._replaceNodeTags(this._getAllNodesWithTag(articleContent, ["h1"]), "h2")
ReplaceH1(t, inPlace) ==
    LET headings == AllNodesWithTag(t, {"H1"})
    IN  [j \in DOMAIN t |->
            IF j \in headings THEN SetNodeTagAt(t, j, "H2", inPlace)[j] ELSE t[j]]

\* the paragraphs without an image, an embed and text
RemoveEmptyParagraphs(t) ==
    RemoveNodes(t, {i \in AllNodesWithTag(t, {"P"}) :
                       /\ \A j \in DOMAIN t :
                             t[j].alive /\ Inside(t, j, i)
                                => t[j].tag \notin {"IMG", "EMBED", "OBJECT", "IFRAME"}
                       /\ ~HasTextContent(t, i)},
                "emptyParagraph")

\* this._nextNode(br.nextSibling): the next element among the siblings
NextElementSibling(t, i) ==
    LET later == {j \in Children(t, t[i].parent) : j > i}
    IN  IF later = {} THEN 0 ELSE CHOOSE j \in later : \A k \in later : j <= k

\* a <br> right before a <p> is removed
RemoveBrsBeforeParagraphs(t) ==
    RemoveNodes(t, {i \in AllNodesWithTag(t, {"BR"}) :
                       /\ NextElementSibling(t, i) # 0
                       /\ t[NextElementSibling(t, i)].tag = "P"},
                "br")

\* the only element child of the element
OnlyChild(t, i) == CHOOSE j \in Children(t, i) : TRUE

PhrasingTags == {"SPAN", "BR", "IMG", "B", "I", "EM", "A"}

\* the callback of the single-cell table conversion on one table
FlattenTable(t, table, inPlace) ==
    LET tbody == IF HasSingleTagInsideElement(t, table, "TBODY")
                 THEN OnlyChild(t, table) ELSE table
    IN  IF ~HasSingleTagInsideElement(t, tbody, "TR") THEN t
        ELSE LET row == OnlyChild(t, tbody)
             IN  IF ~HasSingleTagInsideElement(t, row, "TD") THEN t
                 ELSE LET cell == OnlyChild(t, row)
                          tag == IF \A c \in Children(t, cell) : t[c].tag \in PhrasingTags
                                 THEN "P" ELSE "DIV"
                      IN  [j \in DOMAIN t |->
                              IF j = cell
                              THEN [SetNodeTagAt(t, cell, tag, inPlace)[cell]
                                       EXCEPT !.parent = t[table].parent]
                              ELSE IF j = table
                              THEN [t[j] EXCEPT !.alive = FALSE, !.removedBy = "flatten"]
                              ELSE IF j \in {tbody, row}
                              THEN [t[j] EXCEPT !.alive = FALSE]
                              ELSE t[j]]

\* the _forEachNode over the tables found before the first conversion
RECURSIVE FlattenFrom(_, _, _, _)
FlattenFrom(t, tables, i, inPlace) ==
    IF i > Len(t) THEN t
    ELSE FlattenFrom(IF i \in tables THEN FlattenTable(t, i, inPlace) ELSE t,
                     tables, i + 1, inPlace)

FlattenTables(t, inPlace) == FlattenFrom(t, AllNodesWithTag(t, {"TABLE"}), 1, inPlace)

\* _prepArticle up to the interactive elements
CleanJunk(t, fl) ==
    Clean(CleanShareElements(
              Clean(CleanConditionallyEach(MarkDataTables(t), <<"FORM", "FIELDSET">>, fl),
                    {"OBJECT", "EMBED", "FOOTER", "LINK", "ASIDE"})),
          {"IFRAME", "INPUT", "TEXTAREA", "SELECT", "BUTTON"})

\* header cleaning, then the structural cleaning
CleanStructure(t, fl) ==
    CleanConditionallyEach(CleanHeaders(t, fl), <<"TABLE", "UL", "DIV", "OL", "DL">>, fl)

\* heading normalization, paragraph and break cleanup, table simplification
Normalize(t, inPlace) ==
    FlattenTables(RemoveBrsBeforeParagraphs(RemoveEmptyParagraphs(ReplaceH1(t, inPlace))),
                  inPlace)

PrepKinds ==
    [tag : {"H1"}, cls : {"", "sidebar"}, id : {""}, text : {"x"},
     cue : {FALSE}, bad : {FALSE}]
    \cup [tag : {"H2"}, cls : {""}, id : {"sidebar"}, text : {"x"},
          cue : {FALSE}, bad : {FALSE}]
    \cup [tag : {"TABLE"}, cls : {""}, id : {""}, text : {""},
          cue : BOOLEAN, bad : {TRUE}]
    \cup [tag : {"TABLE", "TR", "TD", "CODE", "P"}, cls : {""}, id : {""}, text : {""},
          cue : {FALSE}, bad : {FALSE}]
    \cup [tag : {"DIV"}, cls : {""}, id : {""}, text : {""},
          cue : {FALSE}, bad : {TRUE}]

PrepNode(kind, parent, node) ==
    [tag |-> kind.tag, cls |-> kind.cls, id |-> kind.id, text |-> kind.text,
     cue |-> kind.cue, bad |-> kind.bad, parent |-> parent, node |-> node,
     alive |-> TRUE, dataTable |-> FALSE, removedBy |-> ""]

ArticleContentNode ==
    PrepNode([tag |-> "DIV", cls |-> "", id |-> "readability-page-1", text |-> "",
              cue |-> FALSE, bad |-> FALSE], 0, 1)

\* the flags of the first two attempts, of the third and of the fourth
PrepFlags ==
    {AllFlags, RemoveFlag(AllFlags, FLAG_STRIP_UNLIKELYS), FLAG_CLEAN_CONDITIONALLY, 0}

InitPrep ==
    /\ \E n \in 1..MaxPrepNodes :
       \E kinds \in [1..n -> PrepKinds] :
       \E parents \in [1..n -> 1..n] :
         /\ \A i \in 1..n : parents[i] <= i
         /\ prepTree = <<ArticleContentNode>>
                \o [i \in 1..n |-> PrepNode(kinds[i], parents[i], i + 1)]
    /\ prepBefore = prepTree
    /\ prepFlags \in PrepFlags
    /\ prepJSDOMParser \in BOOLEAN
    /\ pc = "prepArticle"
    /\ OutsidePrepIdle

\* data tables are marked, forms, embeds, share and interactive elements go
CleanJunkStep ==
    /\ pc = "prepArticle"
    /\ prepTree' = CleanJunk(prepTree, prepFlags)
    /\ pc' = "cleanHeaders"
    /\ UNCHANGED <<outsidePrepVars, prepBefore, prepFlags, prepJSDOMParser>>

\* _cleanHeaders, then _cleanConditionally for tables, lists and divs
CleanStructureStep ==
    /\ pc = "cleanHeaders"
    /\ prepTree' = CleanStructure(prepTree, prepFlags)
    /\ pc' = "replaceH1"
    /\ UNCHANGED <<outsidePrepVars, prepBefore, prepFlags, prepJSDOMParser>>

\* h1 to h2 and the cleanup after it; _prepArticle returns
NormalizeStep ==
    /\ pc = "replaceH1"
    /\ prepTree' = Normalize(prepTree, prepJSDOMParser)
    /\ pc' = "prepared"
    /\ UNCHANGED <<outsidePrepVars, prepBefore, prepFlags, prepJSDOMParser>>

NextPrep == CleanJunkStep \/ CleanStructureStep \/ NormalizeStep

SpecPrep == InitPrep /\ [][NextPrep]_vars

----------------------------------------------------------------------------
(* The choice of the top candidate once the candidates are ranked.  The    *)
(* page is a sequence of elements, the first of them <body>; an element    *)
(* names its parent by position.  topCandidates holds positions.           *)

\* node.children
ElementChildren(t, i) == {j \in DOMAIN t : t[j].parent = i}

\* this._getNodeAncestors(node) as a set
AncestorsOf(t, i) == {a \in DOMAIN t : HasAncestor(t, i, a)}

\* a new DIV takes the children of the page, is appended to it and
\* initialized
Fabricate(t, fl) ==
    LET div == [tag |-> "DIV", cls |-> "", parent |-> 1, readability |-> NoScore]
    IN  [j \in DOMAIN t |-> IF t[j].parent = 1 THEN [t[j] EXCEPT !.parent = Len(t) + 1]
                            ELSE t[j]]
        \o <<[div EXCEPT !.readability = Scored(InitializeNode(div, fl))]>>

\* the first candidate is missing or is the page
NeedsFabrication(t, tops) == tops = <<>> \/ t[tops[1]].tag = "BODY"

\* the ancestors of the other candidates that score at least 0.75 of the top
AlternativeCandidateAncestors(t, tops) ==
    [k \in {i \in 2..Len(tops) :
               4 * t[tops[i]].readability.contentScore
                   >= 3 * t[tops[1]].readability.contentScore}
        |-> AncestorsOf(t, tops[k])]

\* the walk up from the parent: the first ancestor below the page that at
\* least MINIMUM_TOPCANDIDATES of the lists contain
RECURSIVE AlternativeWalk(_, _, _, _)
AlternativeWalk(t, lists, parentOfTopCandidate, top) ==
    IF t[parentOfTopCandidate].tag = "BODY" THEN top
    ELSE IF Cardinality({k \in DOMAIN lists : parentOfTopCandidate \in lists[k]}) >= 3
         THEN parentOfTopCandidate
         ELSE AlternativeWalk(t, lists, t[parentOfTopCandidate].parent, top)

\* the alternative candidate detection
AlternativeTop(t, tops) ==
    LET lists == AlternativeCandidateAncestors(t, tops)
    IN  IF Cardinality(DOMAIN lists) >= 3
        THEN AlternativeWalk(t, lists, t[tops[1]].parent, tops[1])
        ELSE tops[1]

\* if (!topCandidate.readability) this._initializeNode(topCandidate)
InitializeIfNeeded(t, top, fl) ==
    IF t[top].readability.has THEN t
    ELSE [t EXCEPT ![top].readability = Scored(InitializeNode(t[top], fl))]

\* the walk up the parents: a parent that scores more than the last one seen
\* becomes the top candidate; it ends at the page or below a third of the score
RECURSIVE ParentWalk(_, _, _, _, _)
ParentWalk(t, parentOfTopCandidate, lastScore, scoreThreshold, top) ==
    IF t[parentOfTopCandidate].tag = "BODY" THEN top
    ELSE IF ~t[parentOfTopCandidate].readability.has
         THEN ParentWalk(t, t[parentOfTopCandidate].parent, lastScore, scoreThreshold, top)
    ELSE LET parentScore == t[parentOfTopCandidate].readability.contentScore
         IN  IF 3 * parentScore < scoreThreshold THEN top
             ELSE IF parentScore > lastScore THEN parentOfTopCandidate
             ELSE ParentWalk(t, t[parentOfTopCandidate].parent, parentScore,
                             scoreThreshold, top)

\* parent score climbing; scoreThreshold is kept times three
ParentClimb(t, top) ==
    ParentWalk(t, t[top].parent, t[top].readability.contentScore,
               t[top].readability.contentScore, top)

\* the climb that does not look at the tag of the parent
RECURSIVE SingleChildClimbAnyParent(_, _)
SingleChildClimbAnyParent(t, top) ==
    IF t[top].parent # 0 /\ Cardinality(ElementChildren(t, t[top].parent)) = 1
    THEN SingleChildClimbAnyParent(t, t[top].parent)
    ELSE top

\* while (parentOfTopCandidate.tagName != "BODY" &&
\*        parentOfTopCandidate.children.length == 1)
RECURSIVE SingleChildClimb(_, _)
SingleChildClimb(t, top) ==
    IF /\ t[t[top].parent].tag # "BODY"
       /\ Cardinality(ElementChildren(t, t[top].parent)) = 1
    THEN SingleChildClimb(t, t[top].parent)
    ELSE top

SelectScores == {NoScore, Scored(800), Scored(1000)}

\* the candidates in the order they were initialized: along a chain the
\* parent comes before the grandparent
CandidatesOf(t) ==
    LET all == [k \in 1..Len(t) |-> Len(t) + 1 - k]
    IN  SelectSeq(all, LAMBDA i : t[i].readability.has)

\* the ranking loop over positions
RankedPositions(t, nb) ==
    LET cands == CandidatesOf(t)
        tops == RankAll([k \in DOMAIN cands |->
                            [pos |-> cands[k], readability |-> t[cands[k]].readability]],
                        <<>>, nb)
    IN  [k \in DOMAIN tops |-> tops[k].pos]

InitSelect ==
    /\ \E n \in 1..MaxSelectNodes :
       \E parents \in [1..n -> 1..n] :
       \E scores \in [0..n -> SelectScores] :
         /\ scores[0] # Scored(800)
         /\ \A i \in 1..n : parents[i] \in {1, 2, i} /\ parents[i] <= i
         /\ selTree = <<[tag |-> "BODY", cls |-> "", parent |-> 0,
                         readability |-> scores[0]]>>
                \o [i \in 1..n |-> [tag |-> "DIV", cls |-> "", parent |-> parents[i],
                                    readability |-> scores[i]]]
    /\ selBefore = selTree
    /\ selTopCandidates = RankedPositions(selTree, DEFAULT_N_TOP_CANDIDATES)
    /\ selTop = 0
    /\ pc = "selectTop"
    /\ OutsideSelectIdle

\* var topCandidate = topCandidates[0] || null, and the fallback
SelectFirstStep ==
    /\ pc = "selectTop"
    /\ IF NeedsFabrication(selTree, selTopCandidates)
       THEN /\ selTree' = Fabricate(selTree, AllFlags)
            /\ selTop' = Len(selTree')
            /\ pc' = "selected"
       ELSE /\ selTop' = selTopCandidates[1]
            /\ pc' = "alternatives"
            /\ UNCHANGED selTree
    /\ UNCHANGED <<outsideSelectVars, selBefore, selTopCandidates>>

\* an ancestor shared by three alternative candidates takes over
AlternativeAncestorsStep ==
    /\ pc = "alternatives"
    /\ selTop' = AlternativeTop(selTree, selTopCandidates)
    /\ selTree' = InitializeIfNeeded(selTree, selTop', AllFlags)
    /\ pc' = "parentClimb"
    /\ UNCHANGED <<outsideSelectVars, selBefore, selTopCandidates>>

\* a parent with a higher score takes over
ParentClimbStep ==
    /\ pc = "parentClimb"
    /\ selTop' = ParentClimb(selTree, selTop)
    /\ pc' = "singleChild"
    /\ UNCHANGED <<outsideSelectVars, selBefore, selTopCandidates, selTree>>

\* the parents of an only child take over; the top candidate is initialized
SingleChildStep ==
    /\ pc = "singleChild"
    /\ selTop' = SingleChildClimb(selTree, selTop)
    /\ selTree' = InitializeIfNeeded(selTree, selTop', AllFlags)
    /\ pc' = "selected"
    /\ UNCHANGED <<outsideSelectVars, selBefore, selTopCandidates>>

NextSelect ==
    SelectFirstStep \/ AlternativeAncestorsStep \/ ParentClimbStep \/ SingleChildStep

SpecSelect == InitSelect /\ [][NextSelect]_vars

----------------------------------------------------------------------------
(* The traversal at the start of _grabArticle, as far as it removes        *)
(* elements.  The page is a sequence of elements in document order, the    *)
(* first of them <body>; removedBy names the rule that took an element     *)
(* out.                                                                    *)

\* this._isProbablyVisible(node)
IsProbablyVisible(n) == ~n.hidden

UNLIKELY_ROLES ==
    {"menu", "menubar", "complementary", "navigation", "alert", "alertdialog", "dialog"}

\* the tests on matchString = node.className + " " + node.id
MatchesUnlikely(n) == UnlikelyCandidates(n.cls) \/ UnlikelyCandidates(n.id)
MatchesOkMaybe(n) == OkMaybeItsACandidate(n.cls) \/ OkMaybeItsACandidate(n.id)

\* the class and id test whatever the flags are
StripsUnlikelyAnyFlags(t, i, fl) ==
    /\ MatchesUnlikely(t[i])
    /\ ~MatchesOkMaybe(t[i])
    /\ ~HasAncestorTag(t, i, "TABLE")
    /\ ~HasAncestorTag(t, i, "CODE")
    /\ t[i].tag # "BODY"
    /\ t[i].tag # "A"

\* the unlikely-candidate test of the traversal on the element at i
StripsUnlikely(t, i, fl) ==
    /\ FlagIsActive(fl, FLAG_STRIP_UNLIKELYS)
    /\ MatchesUnlikely(t[i])
    /\ ~MatchesOkMaybe(t[i])
    /\ ~HasAncestorTag(t, i, "TABLE")
    /\ ~HasAncestorTag(t, i, "CODE")
    /\ t[i].tag # "BODY"
    /\ t[i].tag # "A"

\* the role test that follows it
StripsRole(t, i, fl) ==
    /\ FlagIsActive(fl, FLAG_STRIP_UNLIKELYS)
    /\ t[i].role \in UNLIKELY_ROLES

\* the rule that removes the element, "" when it stays
RemovingRule(t, i, fl) ==
    IF ~IsProbablyVisible(t[i]) THEN "visibility"
    ELSE IF StripsUnlikely(t, i, fl) THEN "unlikely"
    ELSE IF StripsRole(t, i, fl) THEN "role"
    ELSE ""

TraverseKinds ==
    [tag : {"DIV"}, cls : {"", "sidebar"}, id : {"", "article"},
     hidden : {FALSE}, role : {""}]
    \cup [tag : {"TABLE", "CODE"}, cls : {""}, id : {""}, hidden : {FALSE}, role : {""}]
    \cup [tag : {"A"}, cls : {""}, id : {"sidebar"}, hidden : {FALSE}, role : {""}]
    \cup [tag : {"DIV"}, cls : {""}, id : {""}, hidden : {TRUE}, role : {""}]
    \cup [tag : {"DIV"}, cls : {""}, id : {""}, hidden : {FALSE}, role : {"navigation"}]

TraverseNode(kind, parent) ==
    [tag |-> kind.tag, cls |-> kind.cls, id |-> kind.id, hidden |-> kind.hidden,
     role |-> kind.role, parent |-> parent, alive |-> TRUE, removedBy |-> ""]

InitTraverse ==
    /\ \E n \in 1..MaxTraverseNodes :
       \E kinds \in [1..n -> TraverseKinds] :
       \E parents \in [1..n -> 1..n] :
       \E bodyClass \in {"", "sidebar"} :
         /\ \A i \in 1..n : parents[i] <= i
         /\ travTree =
              <<TraverseNode([tag |-> "BODY", cls |-> bodyClass, id |-> "",
                              hidden |-> FALSE, role |-> ""], 0)>>
              \o [i \in 1..n |-> TraverseNode(kinds[i], parents[i])]
    /\ travNode = 1
    /\ travFlags \in {AllFlags, RemoveFlag(AllFlags, FLAG_STRIP_UNLIKELYS)}
    /\ pc = "traverse"
    /\ OutsideTraverseIdle

\* one turn of while (node): the element is removed with what is below it,
\* or the traversal moves on
TraverseStep ==
    /\ pc = "traverse"
    /\ travNode # 0
    /\ IF RemovingRule(travTree, travNode, travFlags) # ""
       THEN /\ travTree' = [RemoveNode(travTree, travNode) EXCEPT
                               ![travNode].removedBy =
                                   RemovingRule(travTree, travNode, travFlags)]
            /\ travNode' = RemoveAndGetNext(travTree, travNode)
       ELSE /\ travNode' = GetNextNode(travTree, travNode)
            /\ UNCHANGED travTree
    /\ UNCHANGED <<outsideTraverseVars, pc, travFlags>>

\* node is null: the traversal is over
TraverseReturn ==
    /\ pc = "traverse"
    /\ travNode = 0
    /\ pc' = "traversed"
    /\ UNCHANGED <<outsideTraverseVars, traverseVars>>

NextTraverse == TraverseStep \/ TraverseReturn

SpecTraverse == InitTraverse /\ [][NextTraverse]_vars

----------------------------------------------------------------------------
(* The sibling loop over paragraphs: a top candidate and <p> siblings of  *)
(* every length around 80, link density around 0.25, with and without a    *)
(* period that ends a sentence.                                            *)

ParagraphSiblings ==
    [tag : {"P"}, cls : {""}, base : {0}, readability : {NoScore},
     len : {0, 79, 80, 81}, ld : {0, 10, 25}, dot : BOOLEAN]
    \cup [tag : {"P"}, cls : {""}, base : {0}, readability : {Scored(1200)},
          len : {80}, ld : {25}, dot : {FALSE}]

TopDiv ==
    [tag |-> "DIV", cls |-> "", base |-> 0, readability |-> Scored(6000),
     len |-> 500, ld |-> 0, dot |-> TRUE]

InitParagraphs ==
    /\ \E n \in 0..MaxParagraphs :
         \E paragraphs \in [1..n -> ParagraphSiblings] :
           \E t \in 1..(n + 1) :
             /\ page = WithIds(InsertAt(paragraphs, t, TopDiv))
             /\ topCandidate = page[t]
    /\ doc = Serialize(page)
    /\ pageCacheHtml = Serialize(page)
    /\ jsdom \in BOOLEAN
    /\ sib = SiblingLoopInit(page)
    /\ topCandidates = <<topCandidate>>
    /\ candidates = <<>>
    /\ ranked = <<>>
    /\ nbTopCandidates = DEFAULT_N_TOP_CANDIDATES
    /\ OtherIdle
    /\ flags = ConstructorFlags(AllFlags)
    /\ attempts = <<>>
    /\ articleContent = NoResult
    /\ textLength = 0
    /\ result = NoResult
    /\ pc = "siblings"
    /\ flagsRun = <<flags>>
    /\ touched = FALSE
    /\ call = 1
    /\ reuse = "none"
    /\ first = [n |-> 0, content |-> NoResult]
    /\ DensityIdle

SpecParagraphs == InitParagraphs /\ [][NextSiblings]_vars

----------------------------------------------------------------------------
(* What the claims speak about *)

RelaxationOrder ==
    <<FLAG_STRIP_UNLIKELYS, FLAG_WEIGHT_CLASSES, FLAG_CLEAN_CONDITIONALLY>>

ActiveFlags(fl) == {i \in 1..3 : FlagIsActive(fl, RelaxationOrder[i])}

\* the flags word in which exactly the first k-1 flags of the order are cleared
FlagsOfAttempt(k) == CHOOSE fl \in 0..7 : ActiveFlags(fl) = k..3

\* what attempt k yields when run on the cached document
AttemptOnCache(k) == GrabOnce(Parse(doc), FlagsOfAttempt(k), FALSE).content

LongEnough(k) == SumLen(AttemptOnCache(k)) >= DEFAULT_CHAR_THRESHOLD

Done == pc = "done"

(* C1: for every input document the retry loop terminates, and it runs at  *)
(* most 4 extraction attempts.                                             *)
C1_TerminatesWithinFour == <>Done /\ [](Len(flagsRun) <= 4)

C1_Witness == Done /\ Len(flagsRun) = 4 /\ Len(doc) > 0

(* C2: the loop returns the articleContent of the first attempt, in        *)
(* relaxation order, whose text length is >= charThreshold; no attempt is  *)
(* run and no flag is cleared after it, and the attempts list holds        *)
(* exactly the earlier, too-short attempts.                                *)
C2_FirstLongEnoughReturned ==
    \A k \in 1..4 :
        (Done /\ LongEnough(k) /\ \A j \in 1..(k - 1) : ~LongEnough(j))
        => /\ result = Element(AttemptOnCache(k))
           /\ Len(flagsRun) = k
           /\ flags = FlagsOfAttempt(k)
           /\ Len(attempts) = k - 1
           /\ \A j \in 1..(k - 1) :
                 attempts[j] = [articleContent |-> Element(AttemptOnCache(j)),
                                textLength |-> SumLen(AttemptOnCache(j))]

C2_Witness ==
    /\ Done
    /\ ~LongEnough(1)
    /\ LongEnough(2)
    /\ Len(attempts) = 1
    /\ result = Element(AttemptOnCache(2))
    /\ result # attempts[1].articleContent

(* C3: flags are relaxed in the order STRIP_UNLIKELYS, WEIGHT_CLASSES,     *)
(* CLEAN_CONDITIONALLY: the k-th attempt runs with exactly the first k-1   *)
(* flags cleared, each too-short attempt that has a flag left to clear     *)
(* clears exactly the next one, and no cleared flag is set again.          *)
C3_RelaxationOrder ==
    /\ Len(flagsRun) <= 4
    /\ \A k \in 1..Len(flagsRun) : flagsRun[k] = FlagsOfAttempt(k)
    /\ pc = "loop" => flags = FlagsOfAttempt(Len(flagsRun) + 1)
    /\ pc \in {"check", "done"} => flags = FlagsOfAttempt(Len(flagsRun))

C3_Witness == Done /\ flagsRun = <<7, 6, 4, 0>> /\ flags = 0

(* C4: when all four attempts are too short, the loop returns the          *)
(* articleContent of a recorded attempt whose textLength is the maximum    *)
(* over all recorded attempts.                                             *)
C4_LongestAttemptReturned ==
    (Done /\ \A k \in 1..4 : ~LongEnough(k))
    => /\ Len(attempts) = 4
       /\ \E i \in 1..4 :
             /\ result = attempts[i].articleContent
             /\ \A k \in 1..4 :
                   /\ SumLen(AttemptOnCache(k)) <= attempts[i].textLength
                   /\ \E j \in 1..4 :
                         attempts[j] = [articleContent |-> Element(AttemptOnCache(k)),
                                        textLength |-> SumLen(AttemptOnCache(k))]

C4_Witness ==
    /\ Done
    /\ Len(attempts) = 4
    /\ \E i, j \in 1..4 : attempts[i].textLength < attempts[j].textLength
    /\ SumLen(AttemptOnCache(1)) < SumLen(AttemptOnCache(2))

(* C5 as claimed: when all passes are exhausted and even the longest       *)
(* recorded attempt has text length 0, extraction returns null.            *)
C5_NullWhenEmpty ==
    (Done /\ Len(attempts) = 4 /\ attempts[1].textLength = 0) => result = NullResult

(* C5 as the code has it: in that case the loop still returns the          *)
(* articleContent element of the first attempt of the sorted list.         *)
C5_EmptyAttemptReturned ==
    (Done /\ Len(attempts) = 4 /\ attempts[1].textLength = 0)
    => /\ result.kind = "element"
       /\ result = attempts[1].articleContent
       /\ SumLen(result.children) = 0

C5_Witness == Done /\ Len(attempts) = 4 /\ attempts[1].textLength = 0

(* C6: at the start of every attempt after the first the DOM below the     *)
(* page is the one the cached markup describes, whatever the previous      *)
(* attempt removed, retagged or moved, so the attempt's result is the      *)
(* result of extraction on the cached document under the attempt's flags.  *)
C6_RetryFromCachedDom ==
    /\ (pc = "loop" /\ flagsRun # <<>>)
          => /\ page = Parse(pageCacheHtml)
             /\ pageCacheHtml = doc
    /\ (pc = "check" /\ Len(flagsRun) >= 2)
          => articleContent =
                Element(GrabOnce(Parse(pageCacheHtml), flags, FALSE).content)

C6_Witness ==
    /\ pc = "check"
    /\ Len(flagsRun) = 2
    /\ touched
    /\ GrabOnce(attempts[1].articleContent.children, flags, FALSE).content
          # articleContent.children

C8_NoDuplicateSiblings ==
    /\ \A i, j \in 1..Len(sib.content) :
          i # j => Origin(sib.content[i].id) # Origin(sib.content[j].id)
    /\ \A i \in 1..Len(sib.content) : \A j \in 1..Len(page) :
          /\ sib.content[i].id # page[j].id
          /\ Origin(sib.content[i].id) # Origin(page[j].id)
    /\ ~SiblingLoopRuns(sib) =>
          \E i \in 1..Len(sib.content) :
              Origin(sib.content[i].id) = topCandidate.id

C8_Witness ==
    /\ pc = "siblings"
    /\ ~SiblingLoopRuns(sib)
    /\ Len(sib.content) >= 2
    /\ Len(page) >= 1
    /\ sib.content[Len(sib.content)].id = -topCandidate.id

\* contentScore * (1 - linkDensity) of a candidate, from its raw score
AdjustedScore(c) == (c.base * (100 - c.ld)) \div 100

(* C9: after any sequence of candidate insertions topCandidates has at     *)
(* most nbTopCandidates entries, each carrying its adjusted score          *)
(* contentScore * (1 - linkDensity), in descending order of that score;    *)
(* a candidate that is not (or no longer) in the full list has a score     *)
(* no higher than the lowest score in the list.                            *)
C9_TopCandidatesRanked ==
    /\ Len(topCandidates) <= nbTopCandidates
    /\ \A i \in 1..Len(topCandidates) :
          topCandidates[i].readability.contentScore = AdjustedScore(topCandidates[i])
    /\ \A i, j \in 1..Len(topCandidates) :
          i < j => topCandidates[i].readability.contentScore
                     >= topCandidates[j].readability.contentScore
    /\ \A k \in 1..Len(ranked) :
          (\A i \in 1..Len(topCandidates) : topCandidates[i].id # ranked[k].id)
          => /\ Len(topCandidates) = nbTopCandidates
             /\ \A i \in 1..Len(topCandidates) :
                   AdjustedScore(ranked[k]) <= topCandidates[i].readability.contentScore

C9_Witness ==
    /\ pc = "rank"
    /\ Len(ranked) = 6
    /\ Len(topCandidates) = 5
    /\ topCandidates[1].id = 6
    /\ \A i \in 1..5 : topCandidates[i].id # 1
    /\ \E i \in 1..5 : /\ topCandidates[i].base > topCandidates[1].base
                        /\ topCandidates[i].ld > 0

(* C10: for every element _getLinkDensity returns d with 0 <= d <= 1, and  *)
(* 0 when the element has no text, also when <a> descendants are nested    *)
(* in other <a> elements or have '#' hrefs.                                *)
C10_LinkDensityInUnitInterval ==
    pc = "densityDone"
    => /\ linkDensity.den > 0
       /\ 0 <= linkDensity.num
       /\ linkDensity.num <= linkDensity.den
       /\ InnerTextLength(element, 1) = 0 => linkDensity.num = 0

\* C11: post-processing is idempotent: a second run of _postProcessContent
\* on the result of the first leaves the element tree, and so its
\* serialized output, as the first run left it.
C11_PostProcessIdempotent ==
    pc = "postProcessed" /\ runs >= 2 =>
        SerializeTree(article) = SerializeTree(afterFirst)

\* the class attributes of the elements in the tree
ClassAttributes(t) == [j \in DOMAIN t |-> t[j].class]

\* C12: with keepClasses false every element of the post-processed output,
\* at any depth and also one that took the attributes of an unwrapped
\* wrapper, has no class attribute or one made of preserved tokens only;
\* with keepClasses true the class-cleaning step changes no class attribute.
C12_ClassesCleaned ==
    /\ [](pc = "postProcessed" /\ ~keepClasses =>
            \A j \in DOMAIN article :
                article[j].alive /\ article[j].class.has =>
                    \A k \in DOMAIN article[j].class.tokens :
                        article[j].class.tokens[k] \in ClassesToPreserve)
    /\ [][pc = "cleanClasses" /\ keepClasses =>
            ClassAttributes(article') = ClassAttributes(article)]_vars

\* a <div> that came with class "a" has replaced its <section class="a page">
\* wrapper, taken the wrapper's class and been cleaned down to "page"
C12_Witness ==
    /\ pc = "postProcessed"
    /\ ~keepClasses
    /\ \E i \in DOMAIN article :
          /\ i + 1 \in DOMAIN article
          /\ ~article[i].alive /\ article[i].tag = "SECTION"
          /\ article[i + 1].alive /\ article[i + 1].text = "x"
          /\ article[i + 1].tag = "DIV"
          /\ article[i + 1].parent = article[i].parent
          /\ article[i + 1].class = ClassAttr(<<"page">>)

\* the child at position i has been through _setNodeTag
Retagged(i) == dom[i] # domBefore[i]

\* C13: retagging preserves everything but the tag: the element _setNodeTag
\* yields stands at the node's position in the parent, has the new tag
\* name, and has the attributes (names and values), the child nodes in
\* their order and the readability annotation the node had before.
C13_RetagPreservesAllButTag ==
    /\ Len(dom) = Len(domBefore)
    /\ \A i \in DOMAIN dom :
          /\ Origin(dom[i].id) = domBefore[i].id
          /\ dom[i].attributes = domBefore[i].attributes
          /\ dom[i].childNodes = domBefore[i].childNodes
          /\ dom[i].readability = domBefore[i].readability
          /\ Retagged(i) => dom[i].tag = newTagName
    /\ pc = "retagged" /\ ~nodeList.live =>
          \A i \in DOMAIN dom :
              domBefore[i].tag = nodeList.tag => dom[i].tag = newTagName

\* a real DOM has replaced an <h1> that has an attribute, a child and an
\* annotation by a new element
C13_Witness ==
    /\ pc = "retagged"
    /\ ~docJSDOMParser
    /\ \E i \in DOMAIN dom :
          /\ dom[i].id < 0
          /\ domBefore[i].tag = "H1"
          /\ domBefore[i].readability.has
          /\ dom[i].tag = newTagName

RECURSIVE RunEnd(_, _)
RunEnd(s, i) ==
    LET n == NextNode(s, i + 1)
    IN  IF n # 0 /\ s[n].kind = "BR" THEN RunEnd(s, n) ELSE i

StartsRun(s, i) == s[i].kind = "BR" /\ RunEnd(s, i) # i

\* how many siblings from position j on are phrasing content before a
\* block element or the next run
RECURSIVE PhrasingRun(_, _)
PhrasingRun(s, j) ==
    IF j > Len(s) \/ ~IsPhrasingContent(s[j]) \/ StartsRun(s, j) THEN 0
    ELSE 1 + PhrasingRun(s, j + 1)

\* the child nodes the claim describes: a <br> outside a run stays, a run
\* becomes one <p> holding the phrasing content that follows it
RECURSIVE ExpectedBrs(_, _)
ExpectedBrs(s, i) ==
    IF i > Len(s) THEN <<>>
    ELSE IF StartsRun(s, i)
         THEN LET e == RunEnd(s, i)
                  k == PhrasingRun(s, e + 1)
              IN  <<[id |-> -s[i].id, kind |-> "P",
                     childNodes |->
                        TrimTrailingWhitespace(SubSeq(s, e + 1, e + k))]>>
                  \o ExpectedBrs(s, e + k + 1)
         ELSE <<s[i]>> \o ExpectedBrs(s, i + 1)

\* C19: _replaceBrs leaves each <br> whose next non-whitespace sibling is
\* not a <br> as it is, and replaces each run of two or more <br>
\* (whitespace between them ignored) by one new <p> that takes the
\* following phrasing content up to the next block element or the next
\* run, its trailing whitespace trimmed; <div>Lorem<br/>ipsum<br/> <br/>
\* <br/>dolor</div> becomes <div>Lorem<br>ipsum<p>dolor</p></div>.
C19_BrRunsBecomeParagraphs ==
    pc = "brsReplaced" => elem.childNodes = ExpectedBrs(elemBefore.childNodes, 1)


\* the steps of a parse() run in the order the claim gives them
ClaimedOrder ==
    <<"unwrapNoscriptImages", "getJSONLD", "getArticleMetadata",
      "removeScripts", "prepDocument">>

\* C14: in every parse() run the steps come in the order noscript-image
\* unwrap, metadata resolution (JSON-LD, then the meta tags), script
\* removal, the rest of document preparation; so every JSON-LD script of
\* the input is still in the document while the metadata is resolved, and
\* the metadata resolved is that of the input
C14_MetadataBeforeScriptRemoval ==
    /\ \E n \in 0..Len(ClaimedOrder) : steps = SubSeq(ClaimedOrder, 1, n)
    /\ pc = "parsePrepared" => steps = ClaimedOrder
    /\ pc \in {"getJSONLD", "getArticleMetadata"}
          => LdJsonScripts(parseDoc) = LdJsonScripts(input)
    /\ Len(steps) >= 2
          => jsonLd = IF disableJSONLD THEN NoJsonLd ELSE GetJSONLD(input)
    /\ Len(steps) >= 3 => metadata = GetArticleMetadata(jsonLd, input)

\* a run has ended on a document with a JSON-LD script: the metadata has
\* its title and no script is left
C14_Witness ==
    /\ pc = "parsePrepared"
    /\ LdJsonScripts(input) # <<>>
    /\ metadata.title = "Linked"
    /\ \A i \in DOMAIN parseDoc : parseDoc[i].kind # "SCRIPT"


\* the input has more elements than a positive maxElemsToParse allows
Oversized == maxElemsToParse > 0 /\ Len(input) > maxElemsToParse

\* C15: when maxElemsToParse > 0 and the document has more elements than
\* that, parse() fails with an error before any step of the pipeline runs
\* and nothing is produced: no step is taken then or later, the document
\* is as it was given and no metadata or title is set; when maxElemsToParse
\* is 0 no document is rejected, whatever its size
C15_InputTooLarge ==
    /\ [](pc # "parse" =>
            /\ Oversized <=> pc = "parseThrown"
            /\ Oversized <=> parseError = "InputTooLarge"
            /\ ~Oversized => parseError = ""
            /\ pc = "parseThrown" =>
                  /\ steps = <<>>
                  /\ parseDoc = input
                  /\ jsonLd = NoJsonLd
                  /\ metadata = NoMetadata
                  /\ articleTitle = <<>>
            /\ maxElemsToParse = 0 => pc # "parseThrown")
    /\ [][pc # "parseThrown"]_vars

\* a document of more elements than a positive maxElemsToParse has been
\* rejected
C15_Witness ==
    /\ pc = "parseThrown"
    /\ maxElemsToParse > 0
    /\ Len(input) > maxElemsToParse
    /\ parseError = "InputTooLarge"


\* the first value of the sequence that is not empty, "" without one
RECURSIVE FirstNonEmpty(_)
FirstNonEmpty(values) ==
    IF values = <<>> THEN ""
    ELSE IF Head(values) # "" THEN Head(values)
    ELSE FirstNonEmpty(Tail(values))

\* the JSON-LD slot of the run
JsonLdSlot == IF disableJSONLD THEN NoJsonLd ELSE GetJSONLD(input)

\* the value the <meta> elements of the input give the source
SourceValue(key) == MetaValues(input)[key]

\* C17: the metadata title is the first non-empty value, entities
\* unescaped, in the order JSON-LD title, dc:title, dcterm:title, og:title,
\* weibo:article:title, weibo:webpage:title, title, twitter:title,
\* parsely-title, whichever of the sources are there; with disableJSONLD
\* set the JSON-LD slot is empty and the rest of the order is the same
C17_TitlePriority ==
    Len(steps) >= 3 =>
        /\ metadata.title = UnescapeHtmlEntities(FirstNonEmpty(
               <<JsonLdSlot.title, SourceValue("dc:title"),
                 SourceValue("dcterm:title"), SourceValue("og:title"),
                 SourceValue("weibo:article:title"),
                 SourceValue("weibo:webpage:title"), SourceValue("title"),
                 SourceValue("twitter:title"), SourceValue("parsely-title")>>))
        /\ disableJSONLD => jsonLd = NoJsonLd

\* the title came from og:title although dc:title and dcterm:title are not
\* there and title, twitter:title and parsely-title are
C17_Witness ==
    /\ pc = "parsePrepared"
    /\ metadata.title = "Graph"
    /\ SourceValue("title") = "Plain"
    /\ SourceValue("twitter:title") = "Tweet"
    /\ SourceValue("parsely-title") = "Parsely"

\* every author source above article:author is empty
HigherAuthorsEmpty ==
    /\ JsonLdSlot.byline = ""
    /\ SourceValue("dc:creator") = ""
    /\ SourceValue("dcterm:creator") = ""
    /\ SourceValue("author") = ""
    /\ SourceValue("parsely-author") = ""

\* C16: if the only author source is the meta value article:author and it
\* is a URL the byline is empty; article:author is the byline exactly when
\* it is not a URL and JSON-LD, dc:creator, dcterm:creator, author and
\* parsely-author are all empty
C16_BylineUrlRejected ==
    Len(steps) >= 3 =>
        /\ HigherAuthorsEmpty /\ IsUrl(SourceValue("article:author"))
              => metadata.byline = ""
        /\ HigherAuthorsEmpty /\ ~IsUrl(SourceValue("article:author"))
              => metadata.byline = SourceValue("article:author")
        /\ ~HigherAuthorsEmpty
              => /\ metadata.byline # ""
                 /\ metadata.byline # SourceValue("article:author")

\* the only author source was article:author with a URL and the byline is
\* empty
C16_Witness ==
    /\ pc = "parsePrepared"
    /\ HigherAuthorsEmpty
    /\ SourceValue("article:author") = "https://fb.com/carol"
    /\ metadata.byline = ""

\* the document title is 'Foo - Example' and neither JSON-LD nor a <meta>
\* gave a title
FooExample ==
    /\ Len(steps) >= 3
    /\ docTitle = <<"Foo", "-", "Example">>
    /\ metadata.title = ""

\* C18 as stated: for a document whose title is 'Foo - Example', without a
\* JSON-LD or meta-tag title, the resolved article title is 'Foo'
C18_TitleIsFoo == FooExample => articleTitle = <<"Foo">>

\* C18: for a document whose title is 'Foo - Example', without a JSON-LD or
\* meta-tag title, the resolved article title is the whole 'Foo - Example':
\* 'Foo' has fewer than 3 words, ' Example' is taken in its place, and the
\* final validation puts the original title back
C18_TitleIsWholeTitle == FooExample => articleTitle = <<"Foo", "-", "Example">>

\* such a run has ended with the whole title
C18_Witness ==
    /\ pc = "parsePrepared"
    /\ FooExample
    /\ articleTitle = docTitle

----------------------------------------------------------------------------
(* Content scoring *)

\* the elements that take part in scoring: a tag to score, an ancestor,
\* and at least 25 characters of inner text
TakesPart(t, i) ==
    /\ t[i].tag \in DEFAULT_TAGS_TO_SCORE
    /\ t[i].parent # 0
    /\ InnerText(t, i).length >= 25

\* 1 for the element, 1 per comma, 1 per 100 characters up to 3
ClaimedContentScore(innerText) ==
    1 + innerText.commas
      + (IF innerText.length \div 100 < 3 THEN innerText.length \div 100 ELSE 3)

\* C21: an element with at least 25 characters of inner text and c commas
\* scores 1 + c + min(floor(n / 100), 3), and an element with fewer than 25
\* characters adds nothing to any ancestor.
C21_OwnContentScore ==
    /\ \A k \in DOMAIN scoredElements :
         /\ InnerText(scoreTree, scoredElements[k].node).length >= 25
         /\ scoredElements[k].contentScore =
              ClaimedContentScore(InnerText(scoreTree, scoredElements[k].node))
    /\ pc = "scored" =>
         \A i \in DOMAIN scoreTree :
            (\A e \in DOMAIN scoreTree :
                HasAncestor(scoreTree, e, i) => ~TakesPart(scoreTree, e))
            => ~scoreTree[i].readability.has

\* the ancestors of the element up to the root, the parent first
RECURSIVE LevelOf(_, _, _)
LevelOf(t, e, a) ==
    IF t[e].parent = a THEN 0 ELSE 1 + LevelOf(t, t[e].parent, a)

\* the elements that add to the ancestor: it is at most 5 levels above
Contributors(t, a) ==
    {e \in DOMAIN t :
        TakesPart(t, e) /\ HasAncestor(t, e, a) /\ LevelOf(t, e, a) <= 4}

\* the part of the score of e the ancestor a takes, in 3600ths
ClaimedShare(t, e, a) ==
    LET level == LevelOf(t, e, a)
        score == 3600 * ContentScore(InnerText(t, e))
    IN  IF level = 0 THEN score
        ELSE IF level = 1 THEN score \div 2
        ELSE score \div (3 * level)

RECURSIVE SumShares(_, _, _)
SumShares(t, es, a) ==
    IF es = {} THEN 0
    ELSE LET e == CHOOSE x \in es : TRUE
         IN  ClaimedShare(t, e, a) + SumShares(t, es \ {e}, a)

\* C22: when the scoring loop is over, an ancestor within 5 levels of some
\* scored element holds its seed, taken once, plus each such element's
\* score divided by 1, 2 or 3 times the level; any other element was
\* never initialized.
C22_AncestorScores ==
    pc = "scored" =>
      \A a \in DOMAIN scoreTree :
        IF Contributors(scoreTree, a) = {}
        THEN scoreTree[a].readability = NoScore
        ELSE scoreTree[a].readability =
               Scored(36 * InitializeNode(scoreTree[a], scoreFlags)
                      + SumShares(scoreTree, Contributors(scoreTree, a), a))

\* an element was scored whose fifth ancestor took a share while its sixth
\* stayed untouched, and an ancestor took the shares of two elements
C22_Witness ==
    /\ pc = "scored"
    /\ \E e, a, b \in DOMAIN scoreTree :
         /\ TakesPart(scoreTree, e)
         /\ HasAncestor(scoreTree, e, a) /\ LevelOf(scoreTree, e, a) = 4
         /\ scoreTree[a].readability.has
         /\ HasAncestor(scoreTree, e, b) /\ LevelOf(scoreTree, e, b) = 5
         /\ ~scoreTree[b].readability.has
    /\ \E a \in DOMAIN scoreTree : Cardinality(Contributors(scoreTree, a)) = 2

----------------------------------------------------------------------------
(* The sibling loop: what it evaluates and in which order *)

\* the ids 1..n in order
Numbers(n) == [i \in 1..n |-> i]

\* the children the parent had at the start: those appended and those left
ChildrenAtStart == Len(sib.content) + Len(sib.siblings)

\* C23: the sibling loop evaluates the children the parent had at its start
\* one by one in document order, none twice and, at its end, none skipped,
\* whichever of them it appended; the appended nodes are in articleContent
\* in the order they had in the document.
C23_EveryChildEvaluatedOnce ==
    /\ sib.evaluated = Numbers(Len(sib.evaluated))
    /\ ~SiblingLoopRuns(sib) => Len(sib.evaluated) = ChildrenAtStart
    /\ \A i, j \in 1..Len(sib.content) :
          i < j => Origin(sib.content[i].id) < Origin(sib.content[j].id)

\* the loop has ended after appending the first and the third child and
\* leaving the second
C23_Witness ==
    /\ pc = "siblings"
    /\ ~SiblingLoopRuns(sib)
    /\ Len(sib.evaluated) = 3
    /\ Len(sib.content) = 2
    /\ Origin(sib.content[1].id) = 1
    /\ Origin(sib.content[2].id) = 3
    /\ Len(sib.siblings) = 1
    /\ sib.siblings[1].id = 2

\* the sibling does not reach the score threshold
BelowThreshold(sibling) ==
    \/ ~sibling.readability.has
    \/ 5 * sibling.readability.contentScore + ContentBonus5(sibling, topCandidate)
          < SiblingScoreThreshold5(topCandidate)

\* longer than 80 with link density below 0.25, or shorter than 80 and not
\* empty, without a link, with a period before a space or the end
ClaimedParagraphRule(sibling) ==
    \/ sibling.len > 80 /\ sibling.ld < 25
    \/ sibling.len < 80 /\ sibling.len > 0 /\ sibling.ld = 0 /\ sibling.dot

\* C27: a <p> sibling below the score threshold is appended exactly when
\* its text is longer than 80 characters with link density below 0.25, or
\* has 1 to 79 characters, link density 0 and a period followed by a space
\* or the end; with exactly 80 characters it is never appended.
C27_ParagraphRule ==
    /\ \A i \in 1..Len(sib.content) :
          (/\ sib.content[i].tag = "P"
           /\ sib.content[i].id # topCandidate.id
           /\ BelowThreshold(sib.content[i]))
          => /\ ClaimedParagraphRule(sib.content[i])
             /\ sib.content[i].len # 80
    /\ \A j \in 1..sib.s :
          sib.siblings[j].tag = "P" => ~ClaimedParagraphRule(sib.siblings[j])

\* the loop has ended: it left a link-free 80-character paragraph that ends
\* a sentence and appended an 81-character paragraph
C27_Witness ==
    /\ pc = "siblings"
    /\ ~SiblingLoopRuns(sib)
    /\ \E j \in 1..Len(sib.siblings) :
          /\ sib.siblings[j].tag = "P"
          /\ sib.siblings[j].len = 80
          /\ sib.siblings[j].ld = 0
          /\ sib.siblings[j].dot
    /\ \E i \in 1..Len(sib.content) :
          /\ sib.content[i].tag = "P"
          /\ sib.content[i].len = 81
          /\ BelowThreshold(sib.content[i])

----------------------------------------------------------------------------
(* Article preparation *)

\* the elements _cleanConditionally took out
CleanedConditionally ==
    {i \in DOMAIN prepTree : prepTree[i].removedBy = "cleanConditionally"}

\* in the content as it was handed over: a table with the cues of a data
\* table, or an element below one, or an element below a <code>
ClaimedProtected(i) ==
    \/ prepBefore[i].tag = "TABLE" /\ prepBefore[i].cue
    \/ \E a \in DOMAIN prepBefore :
          /\ HasAncestor(prepBefore, i, a)
          /\ \/ prepBefore[a].tag = "TABLE" /\ prepBefore[a].cue
             \/ prepBefore[a].tag = "CODE"

C29_NoH1AfterPrep ==
    pc = "prepared" =>
       /\ \A i \in DOMAIN prepTree : prepTree[i].alive => prepTree[i].tag # "H1"
       /\ \A i \in DOMAIN prepTree :
             prepBefore[i].tag = "H1" /\ prepTree[i].alive => prepTree[i].tag = "H2"

\* an <h1> came through header cleaning and is an <h2> in the result
C29_Witness ==
    /\ pc = "prepared"
    /\ \E i \in DOMAIN prepTree :
          /\ prepBefore[i].tag = "H1"
          /\ prepTree[i].alive
          /\ prepTree[i].tag = "H2"
    /\ \E j \in DOMAIN prepTree : prepTree[j].removedBy = "cleanHeaders"

AttributeValues == {"", "sidebar", "article", "article-sidebar"}

\* C30: _getClassWeight is one of -50, -25, 0, 25, 50 and is 0 whenever
\* WEIGHT_CLASSES is cleared; so in an attempt with WEIGHT_CLASSES cleared
\* _cleanHeaders removes no <h1> and no <h2>.
C30_ClassWeightRange ==
    /\ \A className \in AttributeValues, id \in AttributeValues, fl \in 0..AllFlags :
          /\ ClassWeight(className, id, fl) \in {-5000, -2500, 0, 2500, 5000}
          /\ ~FlagIsActive(fl, FLAG_WEIGHT_CLASSES) => ClassWeight(className, id, fl) = 0
    /\ ~FlagIsActive(prepFlags, FLAG_WEIGHT_CLASSES) =>
          \A i \in DOMAIN prepTree : prepTree[i].removedBy # "cleanHeaders"

\* the third or fourth attempt has prepared a content with a heading of a
\* negative class, which is still there
C30_Witness ==
    /\ pc = "prepared"
    /\ ~FlagIsActive(prepFlags, FLAG_WEIGHT_CLASSES)
    /\ \E i \in DOMAIN prepTree :
          /\ prepBefore[i].tag = "H1"
          /\ NegativeClass(prepBefore[i].cls)
          /\ prepTree[i].alive
    /\ \E i \in DOMAIN prepTree :
          /\ prepBefore[i].tag = "H2"
          /\ NegativeClass(prepBefore[i].id)
          /\ prepTree[i].alive

----------------------------------------------------------------------------
(* The final validation of the title *)

\* the title _getArticleTitle() has before its final validation
CandidateTitle == CurTitle(docTitle, Headings(parseDoc)).words

\* the words the candidate has fewer than the original title with its
\* separators stripped
WordCountReduction ==
    StrippedWordCount(docTitle) - WordCount(Piece(FALSE, CandidateTitle))

\* at most 4 words, and no hierarchical separator or more than one word gone
ClaimedRevert ==
    /\ WordCount(Piece(FALSE, CandidateTitle)) <= 4
    /\ \/ ~TitleHadHierarchicalSeparators(docTitle)
       \/ WordCountReduction > 1

\* C26: the title is put back to origTitle exactly when the candidate has at
\* most 4 words and either no hierarchical separator was found or more than
\* one word went away against origTitle with its separators stripped; a
\* candidate of at most 4 words found with a hierarchical separator and a
\* reduction of 0 or 1 words is kept.
C26_FinalValidation ==
    (Len(steps) >= 3 /\ metadata.title = "") =>
        articleTitle = IF ClaimedRevert THEN docTitle ELSE CandidateTitle

----------------------------------------------------------------------------
(* The top candidate handed to the sibling loop *)

\* the new DIV is the only child of the page and holds what the page held
HoldsTheChildrenOfBody ==
    /\ selTop = Len(selBefore) + 1
    /\ selTree[selTop].tag = "DIV"
    /\ ElementChildren(selTree, 1) = {selTop}
    /\ ElementChildren(selTree, selTop) = ElementChildren(selBefore, 1)

\* C28: the top candidate handed to the sibling loop is never <body> and
\* always has a readability annotation: when the first candidate is missing
\* or is <body> a new <div> holding the children of <body> takes its place,
\* and no promotion step makes <body> the top candidate.
C28_TopCandidateNeverBody ==
    /\ selTop # 0 => selTree[selTop].tag # "BODY"
    /\ pc = "selected" =>
          /\ selTop # 0
          /\ selTree[selTop].readability.has
          /\ NeedsFabrication(selBefore, selTopCandidates) => HoldsTheChildrenOfBody

\* a promotion went up to the element right below <body>, which had no
\* annotation of its own, and stopped there
C28_Witness ==
    /\ pc = "selected"
    /\ ~NeedsFabrication(selBefore, selTopCandidates)
    /\ selTop # selTopCandidates[1]
    /\ selTree[selTop].parent = 1
    /\ ~selBefore[selTop].readability.has
    /\ selTree[selTop].readability.has

----------------------------------------------------------------------------
(* Unlikely candidates *)

\* the elements the class and id rule took out
StrippedAsUnlikely ==
    {i \in DOMAIN travTree : travTree[i].removedBy = "unlikely"}

\* C24: the traversal removes an element by the class and id rule only if
\* STRIP_UNLIKELYS is active, className + " " + id matches unlikelyCandidates
\* and not okMaybeItsACandidate, the element has no <table> or <code>
\* ancestor and is neither <body> nor <a>; with the flag cleared the rule
\* removes nothing.
C24_UnlikelyOnlyWhenAllowed ==
    /\ ~FlagIsActive(travFlags, FLAG_STRIP_UNLIKELYS) => StrippedAsUnlikely = {}
    /\ \A i \in StrippedAsUnlikely :
          /\ travTree[i].cls = "sidebar" \/ travTree[i].id = "sidebar"
          /\ travTree[i].cls # "article" /\ travTree[i].id # "article"
          /\ \A a \in DOMAIN travTree :
                HasAncestor(travTree, i, a) => travTree[a].tag \notin {"TABLE", "CODE"}
          /\ travTree[i].tag \notin {"BODY", "A"}

\* with the flag active the traversal took out a sidebar element and left
\* one that is inside a table
C24_Witness ==
    /\ pc = "traversed"
    /\ FlagIsActive(travFlags, FLAG_STRIP_UNLIKELYS)
    /\ StrippedAsUnlikely # {}
    /\ \E i \in DOMAIN travTree :
          /\ travTree[i].alive
          /\ travTree[i].cls = "sidebar"
          /\ travTree[i].id = ""
          /\ travTree[i].parent # 0
          /\ travTree[travTree[i].parent].tag = "TABLE"

====
